---------------------------- MODULE Spec2Model ----------------------------
(***************************************************************************)
(* A model of the pf task runner's execution engine (src/pf-runner):       *)
(*   pf_shell.py          command parser and secure executor               *)
(*   pf_polyglot.py       polyglot payload builder                         *)
(*   pf_task_executor.py  parallel batch execution                         *)
(*   pf_main.py           top-level command routing and error handling     *)
(*   pf_subcommand_manager.py  discovery of the included task files        *)
(*   pf_builtin_commands.py   the debug-on and debug-off commands           *)
(*                                                                         *)
(* Text is modelled as a sequence of one-character strings, an argument    *)
(* vector as a sequence of such texts, and a Python dict as a sequence of  *)
(* <<key, value>> pairs with unique keys in insertion order.               *)
(***************************************************************************)
EXTENDS Integers, Sequences, FiniteSets, TLC

VARIABLES
    call,       \* the invocation under way: the function and its arguments
    ret,        \* its outcome: NoRet until the call has finished
    io,         \* what the call did to the outside, in order
    pc,         \* execute_parallel_tasks: where its calling thread is
    fstate,     \* the future of each submitted task: pending, running, finished
    fresult,    \* what each finished task returned or raised
    starts,     \* how many times each task was started
    collected,  \* the tasks whose results the caller has taken, in order
    rc_total,   \* the aggregated exit code
    sh,         \* the shell running a payload: its lines, its place, its variables
    dbg         \* the debug marker in the home directory and the invocations toggling it

\* The variables of the parallel executor, of the payload shell and of the
\* debug toggle.
xvars == <<pc, fstate, fresult, starts, collected, rc_total, sh, dbg>>

vars == <<call, ret, io, pc, fstate, fresult, starts, collected, rc_total, sh, dbg>>

\* No payload is being run: no lines, rc not set (-1), no temporary directory.
ShellIdle ==
    [lines |-> <<>>, i |-> 0, status |-> 0, rc |-> -1, tmpdir |-> "none", file |-> <<>>]

\* No debug-on or debug-off was invoked; the marker ~/.pf_debug is absent.
DebugIdle == [marker |-> FALSE, inv |-> <<>>, ops |-> <<>>]

\* No batch is under way, no payload is being run, no toggle was invoked.
ExecutorIdle ==
    /\ sh = ShellIdle
    /\ dbg = DebugIdle
    /\ pc = "idle"
    /\ fstate = <<>>
    /\ fresult = <<>>
    /\ starts = <<>>
    /\ collected = <<>>
    /\ rc_total = 0

NoRet == [kind |-> "pending"]

\* ------------------------------------------------------------------ text

\* All texts of length at most n over the characters of A.
Texts(A, n) == UNION {[1..k -> A] : k \in 0..n}

Letters ==
    {"a","b","c","d","e","f","g","h","i","j","k","l","m","n","o","p","q","r",
     "s","t","u","v","w","x","y","z",
     "A","B","C","D","E","F","G","H","I","J","K","L","M","N","O","P","Q","R",
     "S","T","U","V","W","X","Y","Z"}

Digits == {"0","1","2","3","4","5","6","7","8","9"}

RECURSIVE JoinWith(_, _)
\* sep.join(parts)
JoinWith(sep, parts) ==
    IF parts = <<>> THEN <<>>
    ELSE IF Len(parts) = 1 THEN parts[1]
    ELSE parts[1] \o sep \o JoinWith(sep, Tail(parts))

\* sub in s
Contains(s, sub) ==
    \E i \in 1..(Len(s) - Len(sub) + 1) : SubSeq(s, i, i + Len(sub) - 1) = sub

\* s.startswith(pre)
StartsWith(s, pre) ==
    /\ Len(s) >= Len(pre)
    /\ SubSeq(s, 1, Len(pre)) = pre

\* The index of the first occurrence of character c in s, 0 if there is none.
IndexOf(s, c) ==
    IF \E i \in 1..Len(s) : s[i] = c
    THEN CHOOSE i \in 1..Len(s) : s[i] = c /\ \A j \in 1..(i - 1) : s[j] # c
    ELSE 0

\* ------------------------------------------------------------ Python dict

DictKeys(d) == {d[i][1] : i \in 1..Len(d)}

DictGet(d, k) == d[CHOOSE i \in 1..Len(d) : d[i][1] = k][2]

\* d[k] = v: an existing key keeps its position, a new key goes last.
DictSet(d, k, v) ==
    IF k \in DictKeys(d)
    THEN [i \in 1..Len(d) |-> IF d[i][1] = k THEN <<k, v>> ELSE d[i]]
    ELSE Append(d, <<k, v>>)

RECURSIVE DictUpdate(_, _)
\* d.update(e)
DictUpdate(d, e) ==
    IF e = <<>> THEN d
    ELSE DictUpdate(DictSet(d, e[1][1], e[1][2]), Tail(e))

\* ------------------------------------------------------------ shlex.split

Whitespace == {" ", "\t", "\r", "\n"}
Quotes == {"'", "\""}
Escape == {"\\"}

ShlexError == [ok |-> FALSE, tokens |-> <<>>]

RECURSIVE Lex(_, _, _, _, _, _)
\* shlex's POSIX token reader with whitespace_split and no comment characters:
\* st is its state (" " between tokens, "a" inside a word, a quote character
\* inside quotes, the escape character after a backslash), tok the token being
\* read, esc the state to come back to after an escape, toks the tokens read.
Lex(s, i, st, tok, esc, toks) ==
    IF i > Len(s) THEN
        IF st = " " THEN [ok |-> TRUE, tokens |-> toks]
        ELSE IF st \in Quotes THEN ShlexError       \* No closing quotation
        ELSE IF st \in Escape THEN ShlexError       \* No escaped character
        ELSE [ok |-> TRUE, tokens |-> Append(toks, tok)]
    ELSE
        LET c == s[i] IN
        IF st = " " THEN
            IF c \in Whitespace THEN Lex(s, i + 1, " ", <<>>, esc, toks)
            ELSE IF c \in Escape THEN Lex(s, i + 1, c, <<>>, "a", toks)
            ELSE IF c \in Quotes THEN Lex(s, i + 1, c, <<>>, esc, toks)
            ELSE Lex(s, i + 1, "a", <<c>>, esc, toks)
        ELSE IF st \in Quotes THEN
            IF c = st THEN Lex(s, i + 1, "a", tok, esc, toks)
            ELSE IF c \in Escape /\ st \in {"\""}
                THEN Lex(s, i + 1, c, tok, st, toks)
            ELSE Lex(s, i + 1, st, Append(tok, c), esc, toks)
        ELSE IF st \in Escape THEN
            IF esc \in Quotes /\ c # st /\ c # esc
            THEN Lex(s, i + 1, esc, tok \o <<st, c>>, esc, toks)
            ELSE Lex(s, i + 1, esc, Append(tok, c), esc, toks)
        ELSE
            IF c \in Whitespace THEN Lex(s, i + 1, " ", <<>>, esc, Append(toks, tok))
            ELSE IF c \in Quotes THEN Lex(s, i + 1, c, tok, esc, toks)
            ELSE IF c \in Escape THEN Lex(s, i + 1, c, tok, "a", toks)
            ELSE Lex(s, i + 1, "a", Append(tok, c), esc, toks)

\* shlex.split(s): [ok |-> TRUE, tokens] or, for a ValueError, ShlexError.
ShlexSplit(s) == Lex(s, 1, " ", <<>>, "a", <<>>)

\* ------------------------------------------------------------ shlex.quote

SafeChars == Letters \cup Digits \cup {"_", "@", "%", "+", "=", ":", ",", ".", "/", "-"}

RECURSIVE EscapeSingleQuotes(_)
\* s.replace("'", "'\"'\"'")
EscapeSingleQuotes(s) ==
    IF s = <<>> THEN <<>>
    ELSE (IF s[1] = "'" THEN <<"'", "\"", "'", "\"", "'">> ELSE <<s[1]>>)
         \o EscapeSingleQuotes(Tail(s))

\* shlex.quote(s)
ShlexQuote(s) ==
    IF s = <<>> THEN <<"'", "'">>
    ELSE IF \A i \in 1..Len(s) : s[i] \in SafeChars THEN s
    ELSE <<"'">> \o EscapeSingleQuotes(s) \o <<"'">>


\* ------------------------------------------------------- text constants

T_bash == <<"b", "a", "s", "h">>
T_dash_c == <<"-", "c">>
T_sudo == <<"s", "u", "d", "o">>
T_dash_u == <<"-", "u">>
T_dash_H == <<"-", "H">>
T_export == <<"e", "x", "p", "o", "r", "t", " ">>

\* --------------------------------------------------------- exceptions

Return(v) == [kind |-> "return", value |-> v]

\* PFExecutionError(message, command, suggestion), as parse_shell_command and
\* _build_secure_command_args raise it.
ParseFailure(message, command) ==
    [kind |-> "raise", exc |-> "PFExecutionError", message |-> message,
     command |-> command, suggestion |-> "Check for unclosed quotes or invalid escape sequences"]

\* PFExecutionError(message, command, environment, suggestion), as
\* execute_shell_command raises it.
ExecFailure(message, command, environment, suggestion) ==
    [kind |-> "raise", exc |-> "PFExecutionError", message |-> message,
     command |-> command, environment |-> environment, suggestion |-> suggestion]

\* An exception the code does not catch, leaving the function as it is.
Uncaught(exc) == [kind |-> "raise", exc |-> exc]

\* ------------------------------------------------- parse_shell_command


\* [A-Za-z_][A-Za-z0-9_]* on the whole of k
IsIdentifier(k) ==
    /\ k # <<>>
    /\ k[1] \in Letters \cup {"_"}
    /\ \A i \in 2..Len(k) : k[i] \in Letters \cup Digits \cup {"_"}

\* re.match(r'^[A-Za-z_][A-Za-z0-9_]*$', k): Python's $ matches at the end of
\* the text and also just before a newline that ends the text.
MatchesEnvKey(k) ==
    \/ IsIdentifier(k)
    \/ /\ Len(k) >= 2
       /\ k[Len(k)] = "\n"
       /\ IsIdentifier(SubSeq(k, 1, Len(k) - 1))

\* '=' in token and not token.startswith('-')
LooksLikeAssignment(token) ==
    /\ \E i \in 1..Len(token) : token[i] = "="
    /\ ~StartsWith(token, <<"-">>)

\* token.split('=', 1)
AssignKey(token) == SubSeq(token, 1, IndexOf(token, "=") - 1)
AssignValue(token) == SubSeq(token, IndexOf(token, "=") + 1, Len(token))

\* The test that sends a token to env_vars (lines 55-61).
IsEnvToken(token) == LooksLikeAssignment(token) /\ MatchesEnvKey(AssignKey(token))

RECURSIVE ScanEnv(_, _, _)
\* The loop over the tokens (lines 53-65): env_vars and remaining_tokens.
ScanEnv(tokens, i, env) ==
    IF i > Len(tokens) THEN [env_vars |-> env, remaining_tokens |-> <<>>]
    ELSE IF IsEnvToken(tokens[i])
        THEN ScanEnv(tokens, i + 1, DictSet(env, AssignKey(tokens[i]), AssignValue(tokens[i])))
    ELSE [env_vars |-> env, remaining_tokens |-> SubSeq(tokens, i, Len(tokens))]

\* ' '.join(shlex.quote(token) for token in tokens)
QuoteJoin(tokens) == JoinWith(<<" ">>, [i \in 1..Len(tokens) |-> ShlexQuote(tokens[i])])

\* The line is taken as the command, as written.
TakenAsWritten(cmd_line) == Return([env_vars |-> <<>>, command |-> cmd_line])

\* parse_shell_command(cmd_line): Return([env_vars, command]) or a raise.
parse_shell_command(cmd_line) ==
    LET split == ShlexSplit(cmd_line) IN
    IF ~split.ok THEN ParseFailure("Failed to parse shell command", cmd_line)
    ELSE LET scan == ScanEnv(split.tokens, 1, <<>>) IN
         Return([env_vars |-> scan.env_vars, command |-> QuoteJoin(scan.remaining_tokens)])

\* ------------------------------------------------- build_shell_command

\* Only the task's environment is kept.
TaskEnvOnly(task_env, env_vars) == task_env

\* all_env = {}; all_env.update(task_env); all_env.update(env_vars)
MergeEnv(task_env, env_vars) == DictUpdate(DictUpdate(<<>>, task_env), env_vars)

\* [f"export {key}={shlex.quote(str(value))}" for key, value in all_env.items()]
EnvExports(all_env) ==
    [i \in 1..Len(all_env) |-> T_export \o all_env[i][1] \o <<"=">> \o ShlexQuote(all_env[i][2])]

\* '; '.join(env_exports) + '; ' + command, or the command alone
WithExports(all_env, command) ==
    IF all_env # <<>> THEN JoinWith(<<";", " ">>, EnvExports(all_env)) \o <<";", " ">> \o command
    ELSE command

\* The command is sent as it is.
BareCommand(env_vars, command, task_env, sudo, sudo_user) == command

\* build_shell_command(env_vars, command, task_env, sudo, sudo_user)
build_shell_command(env_vars, command, task_env, sudo, sudo_user) ==
    LET full_command == WithExports(MergeEnv(task_env, env_vars), command) IN
    IF sudo THEN
        IF sudo_user # <<>>
        THEN <<"s", "u", "d", "o", " ", "-", "u", " ">> \o ShlexQuote(sudo_user)
             \o <<" ", "-", "H", " ", "b", "a", "s", "h", " ", "-", "l", "c", " ">>
             \o ShlexQuote(full_command)
        ELSE <<"s", "u", "d", "o", " ", "b", "a", "s", "h", " ", "-", "l", "c", " ">>
             \o ShlexQuote(full_command)
    ELSE full_command

\* ------------------------------------------- _has_shell_metacharacters

\* The backquote character (a TLA+ string cannot hold it).
Backtick == "backquote"

shell_chars ==
    << <<"|">>, <<">">>, <<"<">>, <<"&">>, <<";">>, <<Backtick>>, <<"$">>,
       <<"&", "&">>, <<"|", "|">>, <<">", ">">>, <<"<", "<">>, <<"2", ">">>,
       <<"2", ">", "&", "1">>,
       <<"*">>, <<"?">>, <<"[">>, <<"]">>, <<"{">>, <<"}">>,
       <<"~">>, <<"(">>, <<")">>,
       <<"\n">> >>

\* A detector that knows the pipe and redirection characters only.
HasPipeOrRedirectOnly(cmd) ==
    \E k \in {1, 2, 3} : Contains(cmd, shell_chars[k])

_has_shell_metacharacters(cmd) ==
    \E k \in 1..Len(shell_chars) : Contains(cmd, shell_chars[k])

\* ------------------------------------------ _build_secure_command_args

\* ['sudo'] + ['-u', sudo_user] if given + ['-H']
SudoPrefix(sudo_user) ==
    <<T_sudo>> \o (IF sudo_user # <<>> THEN <<T_dash_u, sudo_user>> ELSE <<>>) \o <<T_dash_H>>

\* ['bash', '-c', text]
BashC(text) == <<T_bash, T_dash_c, text>>

\* The shell fallback whenever the command cannot be tokenized, elevated or not.
FallBackAlways(command, env_vars, task_env, sudo, sudo_user) ==
    IF sudo THEN Return(SudoPrefix(sudo_user) \o BashC(command)) ELSE Return(BashC(command))

\* _build_secure_command_args(command, env_vars, task_env, sudo, sudo_user):
\* Return(argument vector) or a raise.
_build_secure_command_args(command, env_vars, task_env, sudo, sudo_user) ==
    LET needs_shell_features == _has_shell_metacharacters(command)
        split == ShlexSplit(command)
    IN
    IF sudo THEN
        IF needs_shell_features
        THEN Return(SudoPrefix(sudo_user)
                    \o BashC(WithExports(MergeEnv(task_env, env_vars), command)))
        ELSE IF split.ok THEN Return(SudoPrefix(sudo_user) \o split.tokens)
        ELSE ParseFailure("Failed to parse sudo command arguments", command)
    ELSE IF needs_shell_features THEN Return(BashC(command))
    ELSE IF split.ok THEN Return(split.tokens)
    ELSE Return(BashC(command))


\* ----------------------------------------------- execute_shell_command


\* print(...)
Printed(text) == [ev |-> "print", text |-> text]

\* subprocess.Popen(cmd_args, shell=False, env=proc_env); started is whether
\* the process came to exist.
Popen(cmd_args, proc_env, started) ==
    [ev |-> "Popen", args |-> cmd_args, shell |-> FALSE, env |-> proc_env,
     started |-> started]

\* connection.run(full_command, pty=True, warn=True, hide=False), and what
\* the remote end answered.
ConnectionRun(full_command, ext) ==
    [ev |-> "connection.run", command |-> full_command, pty |-> TRUE, warn |-> TRUE,
     answer |-> ext]

\* ' '.join(f"{k}={shlex.quote(str(v))}" for k, v in display_env.items())
EnvDisplay(display_env) ==
    JoinWith(<<" ">>, [i \in 1..Len(display_env) |->
        display_env[i][1] \o <<"=">> \o ShlexQuote(display_env[i][2])])

\* display_cmd (lines 258-265)
DisplayCmd(display_env, command, sudo) ==
    (IF sudo THEN <<"(", "s", "u", "d", "o", ")", " ">> ELSE <<>>)
    \o (IF display_env # <<>> THEN EnvDisplay(display_env) \o <<" ">> \o command
        ELSE command)

\* The inherited environment has the last word.
InheritedWins(os_environ, task_env, env_vars) ==
    DictUpdate(DictUpdate(env_vars, task_env), os_environ)

\* proc_env (lines 274-277)
ProcEnv(os_environ, task_env, env_vars) ==
    DictUpdate(DictUpdate(os_environ, task_env), env_vars)

\* What the operating system or the remote end answers to the one spawn or
\* remote run a call makes.
LocalOutcomes ==
    {[kind |-> "exit", code |-> n] : n \in {0, 1, 127}}
    \cup {[kind |-> "OSError", code |-> -1], [kind |-> "SubprocessError", code |-> -1]}
RemoteOutcomes ==
    {[kind |-> "exit", code |-> n] : n \in {0, 1, 127}}
    \cup {[kind |-> "Exception", code |-> -1]}

\* The local branch (lines 270-292), after the echo.
ExecuteLocal(c, env_vars, command, ext) ==
    LET display_env == MergeEnv(c.task_env, env_vars)
        display_cmd == DisplayCmd(display_env, command, c.sudo)
        echo == Printed(<<"$", " ">> \o display_cmd)
        proc_env == ProcEnv(c.os_environ, c.task_env, env_vars)
        built == _build_secure_command_args(command, env_vars, c.task_env, c.sudo, c.sudo_user)
    IN
    IF built.kind = "raise" THEN [ret |-> built, io |-> <<echo>>]
    ELSE IF ext.kind = "exit"
        THEN [ret |-> Return(ext.code), io |-> <<echo, Popen(built.value, proc_env, TRUE)>>]
    ELSE IF ext.kind = "SubprocessError"
        THEN [ret |-> ExecFailure("Failed to execute subprocess", display_cmd, display_env,
                                  "Check that the command exists and is executable"),
              io |-> <<echo, Popen(built.value, proc_env, FALSE)>>]
    ELSE [ret |-> Uncaught(ext.kind), io |-> <<echo, Popen(built.value, proc_env, FALSE)>>]

\* The remote branch (lines 293-308), after the echo.
ExecuteRemote(c, env_vars, command, ext) ==
    LET display_env == MergeEnv(c.task_env, env_vars)
        display_cmd == DisplayCmd(display_env, command, c.sudo)
        echo == Printed(<<"$", " ">> \o display_cmd)
        full_command == build_shell_command(env_vars, command, c.task_env, c.sudo, c.sudo_user)
    IN
    IF ext.kind = "exit"
    THEN [ret |-> Return(ext.code), io |-> <<echo, ConnectionRun(full_command, ext)>>]
    ELSE [ret |-> ExecFailure("Remote command execution failed", display_cmd, display_env,
                              "Check network connectivity and remote host accessibility"),
          io |-> <<echo, ConnectionRun(full_command, ext)>>]

\* execute_shell_command(cmd_line, task_env, sudo, sudo_user, connection) with
\* prefix "", in the process environment os_environ, where the spawn or the
\* remote run answers ext: the outcome and what was done.
execute_shell_command(c, ext) ==
    LET parsed == parse_shell_command(c.cmd_line) IN
    IF parsed.kind = "raise" THEN [ret |-> parsed, io |-> <<>>]
    ELSE IF parsed.value.command = <<>>
        THEN [ret |-> Return(0),
              io |-> <<Printed(
                <<"[", "w", "a", "r", "n", "]", " ", "E", "m", "p", "t", "y", " ",
                  "c", "o", "m", "m", "a", "n", "d", " ", "a", "f", "t", "e", "r", " ",
                  "p", "a", "r", "s", "i", "n", "g", " ", "e", "n", "v", "i", "r", "o", "n",
                  "m", "e", "n", "t", " ", "v", "a", "r", "i", "a", "b", "l", "e", "s">>)>>]
    ELSE IF c.connection = "None"
        THEN ExecuteLocal(c, parsed.value.env_vars, parsed.value.command, ext)
    ELSE ExecuteRemote(c, parsed.value.env_vars, parsed.value.command, ext)


\* =================================================== the shell layer's calls

\* Bounds on the texts the calls are tried on.
MaxParseLen == 5
MaxCommandLen == 4
MaxLineLen == 4


\* os.environ of the running process.
OsEnviron == << <<<<"a">>, <<"o">> >>, <<<<"H">>, <<"/">> >> >>

ParseCalls ==
    {[fn |-> "parse_shell_command", cmd_line |-> s] :
        s \in Texts({"a", "=", "-", " ", "'", "\n"}, MaxParseLen)}

BuildCalls ==
    {[fn |-> "_build_secure_command_args", command |-> s, env_vars |-> e, task_env |-> t,
      sudo |-> su[1], sudo_user |-> su[2]] :
        s \in Texts({"a", " ", "&", "'", "\\"}, MaxCommandLen),
        e \in {<<>>, << <<<<"a">>, <<"v">> >> >>},
        t \in {<<>>, << <<<<"b">>, <<"u", " ", "w">> >> >>},
        su \in {<<FALSE, <<>> >>, <<TRUE, <<>> >>, <<TRUE, <<"r">> >>}}

ExecCalls ==
    {[fn |-> "execute_shell_command", cmd_line |-> s, task_env |-> t,
      sudo |-> su[1], sudo_user |-> su[2], connection |-> cn, os_environ |-> OsEnviron] :
        s \in Texts({"a", "=", " ", "&", "'"}, MaxLineLen),
        t \in {<<>>, << <<<<"b">>, <<"u">> >>, <<<<"a">>, <<"t">> >> >>},
        su \in {<<FALSE, <<>> >>, <<TRUE, <<>> >>, <<TRUE, <<"r">> >>},
        cn \in {"None", "conn"}}

\* A call of parse_shell_command.
ParseInit == call \in ParseCalls /\ ret = NoRet /\ io = <<>> /\ ExecutorIdle
CallParse ==
    /\ call.fn = "parse_shell_command"
    /\ ret = NoRet
    /\ ret' = parse_shell_command(call.cmd_line)
    /\ UNCHANGED <<call, io>>
    /\ UNCHANGED xvars
ParseSpec == ParseInit /\ [][CallParse]_vars

\* A call of _build_secure_command_args.
BuildInit == call \in BuildCalls /\ ret = NoRet /\ io = <<>> /\ ExecutorIdle
CallBuild ==
    /\ call.fn = "_build_secure_command_args"
    /\ ret = NoRet
    /\ ret' = _build_secure_command_args(call.command, call.env_vars, call.task_env,
                                         call.sudo, call.sudo_user)
    /\ UNCHANGED <<call, io>>
    /\ UNCHANGED xvars
BuildSpec == BuildInit /\ [][CallBuild]_vars

\* A call of execute_shell_command; the spawn or the remote run answers ext.
ExecInit == call \in ExecCalls /\ ret = NoRet /\ io = <<>> /\ ExecutorIdle
CallExecute ==
    /\ call.fn = "execute_shell_command"
    /\ ret = NoRet
    /\ \E ext \in (IF call.connection = "None" THEN LocalOutcomes ELSE RemoteOutcomes) :
        LET x == execute_shell_command(call, ext) IN
        /\ ret' = x.ret
        /\ io' = x.io
    /\ UNCHANGED call
    /\ UNCHANGED xvars
ExecSpec == ExecInit /\ [][CallExecute]_vars


\* ====================================================== claims: shell layer

\* The single characters of the shell metacharacter list.
MetaChars ==
    {"|", ">", "<", "&", ";", Backtick, "$", "*", "?", "[", "]", "{", "}", "~", "(", ")", "\n"}
HasMetaChar(text) == \E i \in 1..Len(text) : text[i] \in MetaChars

EndsWith(text, suffix) ==
    /\ Len(text) >= Len(suffix)
    /\ SubSeq(text, Len(text) - Len(suffix) + 1, Len(text)) = suffix

BuildDone == call.fn = "_build_secure_command_args" /\ ret # NoRet

\* The elevation elements in front of the vector: none without sudo.
SudoElements ==
    IF ~call.sudo THEN <<>>
    ELSE IF call.sudo_user # <<>> THEN <<T_sudo, T_dash_u, call.sudo_user, T_dash_H>>
    ELSE <<T_sudo, T_dash_H>>

\* C1 as stated: without a metacharacter in the command the vector is the
\* tokenized command behind the sudo elements, with no shell in between; with
\* one it is a single shell invocation whose last element is the whole command.
C1_Original ==
    BuildDone =>
        /\ ret.kind = "return"
        /\ IF ~HasMetaChar(call.command)
           THEN /\ ShlexSplit(call.command).ok
                /\ ret.value = SudoElements \o ShlexSplit(call.command).tokens
           ELSE ret.value = SudoElements \o <<T_bash, T_dash_c, call.command>>

\* C1 amended: a metacharacter-free command that can be tokenized gives the
\* tokenized command behind the sudo elements; one that cannot be tokenized
\* gives the shell fallback ['bash','-c',command] without sudo and a
\* PFExecutionError with sudo; a command with a metacharacter gives one shell
\* invocation behind the sudo elements, whose last element is the command
\* without sudo and, with sudo, the command behind the export statements of
\* the merged environment (the command itself when that is empty).
C1_Amended ==
    BuildDone =>
        LET n == Len(SudoElements) IN
        IF ~HasMetaChar(call.command) THEN
            IF ShlexSplit(call.command).ok
            THEN ret = Return(SudoElements \o ShlexSplit(call.command).tokens)
            ELSE IF call.sudo THEN ret.kind = "raise" /\ ret.exc = "PFExecutionError"
            ELSE ret = Return(<<T_bash, T_dash_c, call.command>>)
        ELSE
            /\ ret.kind = "return"
            /\ Len(ret.value) = n + 3
            /\ SubSeq(ret.value, 1, n) = SudoElements
            /\ ret.value[n + 1] = T_bash
            /\ ret.value[n + 2] = T_dash_c
            /\ EndsWith(ret.value[n + 3], call.command)
            /\ (~call.sudo \/ (call.env_vars = <<>> /\ call.task_env = <<>>))
                    => ret.value[n + 3] = call.command
            /\ (call.sudo /\ (call.env_vars # <<>> \/ call.task_env # <<>>))
                    => /\ StartsWith(ret.value[n + 3], T_export)
                       /\ Len(ret.value[n + 3]) > Len(call.command)

\* A two-word command without metacharacters, elevated to a user, comes back
\* as its two words behind sudo -u <user> -H.
C1_Witness ==
    /\ BuildDone
    /\ call.command = <<"a", " ", "a">>
    /\ call.sudo /\ call.sudo_user # <<>>
    /\ ret = Return(<<T_sudo, T_dash_u, call.sudo_user, T_dash_H, <<"a">>, <<"a">> >>)

ExecDone == call.fn = "execute_shell_command" /\ ret # NoRet

\* The command line starts and ends with a word and is written with single
\* spaces, no quoting and no escapes: its text is the command as the user
\* means it.
PlainlyWritten(line) ==
    /\ line # <<>>
    /\ line[1] \in Letters /\ line[Len(line)] \in Letters
    /\ \A i \in 1..Len(line) : line[i] \notin Quotes \cup Escape
    /\ \A i \in 1..(Len(line) - 1) : ~(line[i] = " " /\ line[i + 1] = " ")

\* C2 as stated: a local, non-elevated call on a plainly written command line
\* with no leading assignments and with a shell operator spawns
\* ['bash','-c',C], C the command as written.
C2_Original ==
    ( /\ ExecDone
      /\ call.connection = "None" /\ ~call.sudo
      /\ PlainlyWritten(call.cmd_line)
      /\ HasMetaChar(call.cmd_line)
      /\ ShlexSplit(call.cmd_line).ok
      /\ ~LooksLikeAssignment(ShlexSplit(call.cmd_line).tokens[1]) )
    => \E k \in 1..Len(io) :
            /\ io[k].ev = "Popen"
            /\ io[k].args = <<T_bash, T_dash_c, call.cmd_line>>

\* C9 as stated: a local spawn that fails leaves execute_shell_command as a
\* PFExecutionError that carries the attempted command and the environment.
C9_Original ==
    ( /\ ExecDone
      /\ \E k \in 1..Len(io) : io[k].ev = "Popen" /\ ~io[k].started )
    => /\ ret.kind = "raise"
       /\ ret.exc = "PFExecutionError"
       /\ "command" \in DOMAIN ret
       /\ "environment" \in DOMAIN ret

ParseDone == call.fn = "parse_shell_command" /\ ret # NoRet

\* The assignment test as C3 words it: the token holds '=', does not start
\* with '-', and its left-hand side is an identifier.
ClaimedAssignment(token) ==
    /\ \E i \in 1..Len(token) : token[i] = "="
    /\ token[1] # "-"
    /\ IsIdentifier(SubSeq(token, 1, IndexOf(token, "=") - 1))

\* The length of the maximal leading run of such tokens.
ClaimedRun(tokens) ==
    CHOOSE n \in 0..Len(tokens) :
        /\ \A i \in 1..n : ClaimedAssignment(tokens[i])
        /\ n < Len(tokens) => ~ClaimedAssignment(tokens[n + 1])

RECURSIVE ClaimedEnv(_, _)
\* The mapping the first n tokens assign, a later assignment replacing an
\* earlier one to the same key.
ClaimedEnv(tokens, n) ==
    IF n = 0 THEN <<>>
    ELSE DictSet(ClaimedEnv(tokens, n - 1),
                 SubSeq(tokens[n], 1, IndexOf(tokens[n], "=") - 1),
                 SubSeq(tokens[n], IndexOf(tokens[n], "=") + 1, Len(tokens[n])))

\* C3 as stated: for a line that can be tokenized, env is what the maximal
\* leading run of assignment tokens assigns and rest is the quoted join of
\* every token from the first one outside the run.
C3_Original ==
    (ParseDone /\ ShlexSplit(call.cmd_line).ok) =>
        LET tokens == ShlexSplit(call.cmd_line).tokens
            n == ClaimedRun(tokens)
        IN
        /\ ret.kind = "return"
        /\ ret.value.env_vars = ClaimedEnv(tokens, n)
        /\ ret.value.command = QuoteJoin(SubSeq(tokens, n + 1, Len(tokens)))


\* ======================================= TaskExecutor.execute_parallel_tasks

\* The largest batch tried.
MaxTasks == 3
\* max_workers when the caller gives none.
DefaultMaxWorkers == 4

\* What _execute_single_task (run_task_by_name) can end in: an exit code, a
\* PFException, any other Exception.
TaskOutcomes ==
    {Return(0), Return(1), Return(2), Uncaught("PFException"), Uncaught("Exception")}

ParallelCalls ==
    {[fn |-> "execute_parallel_tasks", tasks |-> n, max_workers |-> w] :
        n \in 0..MaxTasks, w \in {1, 2, DefaultMaxWorkers}}

Tasks == 1..call.tasks

Running == {i \in DOMAIN fstate : fstate[i] = "running"}
Submitted == {i \in DOMAIN fstate : fstate[i] # "unsubmitted"}

ParInit ==
    /\ call \in ParallelCalls
    /\ ret = NoRet
    /\ io = <<>>
    /\ pc = "start"
    /\ fstate = [i \in Tasks |-> "unsubmitted"]
    /\ fresult = [i \in Tasks |-> NoRet]
    /\ starts = [i \in Tasks |-> 0]
    /\ collected = <<>>
    /\ rc_total = 0
    /\ sh = ShellIdle
    /\ dbg = DebugIdle

\* if not tasks: return 0 (lines 68-69); otherwise rc_total = 0 and the pool
\* is created (lines 71-75).
EnterBatch ==
    /\ pc = "start"
    /\ IF call.tasks = 0
       THEN pc' = "returned" /\ ret' = Return(0)
       ELSE pc' = "submit" /\ ret' = ret
    /\ rc_total' = 0
    /\ UNCHANGED <<dbg, sh, call, io, fstate, fresult, starts, collected>>

\* executor.submit(self._execute_single_task, task_info) for the next task of
\* the list (lines 76-78); after the last one the caller goes on to collect.
Submit ==
    /\ pc = "submit"
    /\ LET i == Cardinality(Submitted) + 1 IN
        /\ fstate' = [fstate EXCEPT ![i] = "pending"]
        /\ pc' = IF i = call.tasks THEN "collect" ELSE "submit"
    /\ UNCHANGED <<dbg, sh, call, ret, io, fresult, starts, collected, rc_total>>

\* The pool is unbounded: a worker is there for every task.
WorkerAlwaysAvailable == TRUE

\* ThreadPoolExecutor(max_workers=max_workers): a worker thread is free.
WorkerAvailable == Cardinality(Running) < call.max_workers

\* A free worker takes the oldest pending work item off the queue and starts
\* _execute_single_task on it.
WorkerStart(i) ==
    /\ fstate[i] = "pending"
    /\ \A j \in 1..(i - 1) : fstate[j] # "pending"
    /\ WorkerAvailable
    /\ fstate' = [fstate EXCEPT ![i] = "running"]
    /\ starts' = [starts EXCEPT ![i] = @ + 1]
    /\ UNCHANGED <<dbg, sh, call, ret, io, pc, fresult, collected, rc_total>>

\* _execute_single_task returns or raises (lines 97-108); the future finishes.
TaskFinish(i) ==
    /\ fstate[i] = "running"
    /\ \E o \in TaskOutcomes :
        fresult' = [fresult EXCEPT ![i] = o]
    /\ fstate' = [fstate EXCEPT ![i] = "finished"]
    /\ UNCHANGED <<dbg, sh, call, ret, io, pc, starts, collected, rc_total>>

\* rc of one future (lines 83-92): its result, 1 for an exception.
ResultCode(o) == IF o.kind = "return" THEN o.value ELSE 1

\* rc_total = rc (the last result taken wins)
LastResultWins(total, rc) == rc

\* rc_total = rc_total or rc (line 93)
Aggregate(total, rc) == IF total # 0 THEN total ELSE rc

\* as_completed hands the caller a finished future it has not seen; the
\* caller takes its result, reports an exception, and aggregates (81-93).
Collect(i) ==
    /\ pc = "collect"
    /\ fstate[i] = "finished"
    /\ \A k \in 1..Len(collected) : collected[k] # i
    /\ collected' = Append(collected, i)
    /\ rc_total' = Aggregate(rc_total, ResultCode(fresult[i]))
    /\ io' = IF fresult[i].kind = "raise"
             THEN Append(io, [ev |-> "print_stderr", exc |-> fresult[i].exc, task |-> i])
             ELSE io
    /\ UNCHANGED <<dbg, sh, call, ret, pc, fstate, fresult, starts>>

\* The loop stops at the first failed result.
CollectionOverAtFirstFailure ==
    \/ Len(collected) = call.tasks
    \/ \E k \in 1..Len(collected) : ResultCode(fresult[collected[k]]) # 0

\* The loop over as_completed ends when every future has been handed out.
CollectionOver == Len(collected) = call.tasks

\* The for loop ends (line 81) and the with block is left.
EndCollect ==
    /\ pc = "collect"
    /\ CollectionOver
    /\ pc' = "shutdown"
    /\ UNCHANGED <<dbg, sh, call, ret, io, fstate, fresult, starts, collected, rc_total>>

\* Leaving the with block waits for every submitted task (shutdown(wait=True));
\* then return rc_total (line 95).
ReturnTotal ==
    /\ pc = "shutdown"
    /\ \A i \in Tasks : fstate[i] = "finished"
    /\ pc' = "returned"
    /\ ret' = Return(rc_total)
    /\ UNCHANGED <<dbg, sh, call, io, fstate, fresult, starts, collected, rc_total>>

WorkerStep == \E i \in Tasks : WorkerStart(i)

ParNext ==
    \/ EnterBatch
    \/ Submit
    \/ WorkerStep
    \/ \E i \in Tasks : TaskFinish(i)
    \/ \E i \in Tasks : Collect(i)
    \/ EndCollect
    \/ ReturnTotal

ParSpec == ParInit /\ [][ParNext]_vars

\* The pool's threads are scheduled: a free worker with work queued takes it.
ParFairSpec == ParSpec /\ WF_vars(WorkerStep)


\* ================================================ claims: parallel executor

BatchReturned == call.fn = "execute_parallel_tasks" /\ pc = "returned"

\* The task returned a non-zero code or raised.
TaskFailed(i) ==
    \/ fresult[i].kind = "raise"
    \/ fresult[i].kind = "return" /\ fresult[i].value # 0

\* C5: whatever the order of completion and of collection, the batch returns
\* non-zero exactly when some task returned non-zero or raised, and 0 when
\* every task returned 0 or the list is empty.
C5_Aggregation ==
    BatchReturned =>
        /\ ret.kind = "return"
        /\ (ret.value # 0) <=> (\E i \in Tasks : TaskFailed(i))
        /\ (\A i \in Tasks : fresult[i] = Return(0)) => ret.value = 0

\* Three tasks collected out of submission order, the first and the last
\* results taken being 0 and one in between an exception: the batch fails.
C5_Witness ==
    /\ BatchReturned
    /\ call.tasks = 3
    /\ collected[1] # 1
    /\ fresult[collected[1]] = Return(0)
    /\ fresult[collected[2]].kind = "raise"
    /\ fresult[collected[3]] = Return(0)
    /\ ret.value # 0

\* C6: no task is ever started twice, and when the call returns every task of
\* the list has been started exactly once, has run to its end and has had its
\* result collected, failed siblings or not.
C6_AllRunToCompletion ==
    /\ \A i \in DOMAIN starts : starts[i] <= 1
    /\ BatchReturned =>
        \A i \in Tasks :
            /\ starts[i] = 1
            /\ fstate[i] = "finished"
            /\ fresult[i] \in TaskOutcomes
            /\ \E k \in 1..Len(collected) : collected[k] = i

\* One worker, three tasks, the first one raising: the two behind it in the
\* queue start after the failure and are run and collected all the same.
C6_Witness ==
    /\ BatchReturned
    /\ call.tasks = 3
    /\ call.max_workers = 1
    /\ fresult[1].kind = "raise"
    /\ collected[1] = 1
    /\ \A i \in Tasks : starts[i] = 1 /\ fstate[i] = "finished"

\* The pending tasks submitted before task i.
PendingAhead(i) == {j \in 1..(i - 1) : fstate[j] = "pending"}

\* Task i is in the queue, not yet started.
Waiting(i) == i \in DOMAIN fstate /\ fstate[i] = "pending"

\* Task i waits in the queue and enough workers are free for it and for the
\* tasks queued ahead of it.
WorkerFreeFor(i) ==
    /\ call.fn = "execute_parallel_tasks"
    /\ Waiting(i)
    /\ Cardinality(Running) + Cardinality(PendingAhead(i)) < call.max_workers

\* C7: never more than max_workers tasks run at the same time, and a queued
\* task starts once a worker is free for it.
C7_BoundedPool ==
    /\ [](Cardinality(Running) <= call.max_workers)
    /\ \A i \in 1..MaxTasks :
        WorkerFreeFor(i) ~> ~Waiting(i)

\* More requests than workers: every worker is busy and a request waits.
C7_Witness ==
    /\ call.fn = "execute_parallel_tasks"
    /\ call.tasks > call.max_workers
    /\ Cardinality(Running) = call.max_workers
    /\ \E i \in Tasks : fstate[i] = "pending"


\* ==================================================== PfRunner.run_command

A_f == <<"-", "f">>
A_file == <<"-", "-", "f", "i", "l", "e">>
A_file_eq == <<"-", "-", "f", "i", "l", "e", "=">>
A_run == <<"r", "u", "n">>

\* No word is kept from being an alias.
NoBuiltins == {}

\* builtins (line 95)
builtins ==
    {<<"l", "i", "s", "t">>, <<"h", "e", "l", "p">>, <<"r", "u", "n">>, <<"p", "r", "u", "n", "e">>, <<"d", "e", "b", "u", "g", "-", "o", "n">>, <<"d", "e", "b", "u", "g", "-", "o", "f", "f">>}

\* file_arg when no -f/--file came before the command word.
NoFile == <<"N", "o", "n", "e">>

\* get_alias_map(file_arg=file_arg): the alias map of the default task file or
\* of the file named; ok is FALSE when loading it raises.
get_alias_map(c, file_arg) == IF file_arg = NoFile THEN c.alias_default ELSE c.alias_file

RECURSIVE ResolveFrom(_, _, _, _)
\* The scan of _resolve_aliases from position i (0-based in the code, 1-based
\* here) with the file argument seen so far (lines 86-108).
ResolveFrom(c, args, i, file_arg) ==
    IF i > Len(args) THEN args
    ELSE IF args[i] \in {A_f, A_file} /\ i + 1 <= Len(args)
        THEN ResolveFrom(c, args, i + 2, args[i + 1])
    ELSE IF StartsWith(args[i], A_file_eq)
        THEN ResolveFrom(c, args, i + 1, SubSeq(args[i], Len(A_file_eq) + 1, Len(args[i])))
    ELSE IF ~StartsWith(args[i], <<"-">>)
        THEN IF args[i] \notin builtins
             THEN LET alias_map == get_alias_map(c, file_arg) IN
                  IF alias_map.ok /\ args[i] \in DictKeys(alias_map.map)
                  THEN SubSeq(args, 1, i - 1) \o <<A_run, DictGet(alias_map.map, args[i])>>
                       \o SubSeq(args, i + 1, Len(args))
                  ELSE args
             ELSE args
    ELSE ResolveFrom(c, args, i + 1, file_arg)

\* _resolve_aliases(args)
_resolve_aliases(c, args) == ResolveFrom(c, args, 1, NoFile)

\* What the argument parser (pf_args) answers: SystemExit with a code (None
\* when it has none), or a namespace with its command, its subcommand
\* attribute when it has one ("absent" when not; "None" when it is empty) and
\* the options the handlers read; task_args may be missing from it. The
\* command is None, one of the six builtin ones, or another word.
ParseOutcomes ==
    LET none == [task |-> "None", file |-> "None", hosts |-> "None", env |-> "None",
                 dry_run |-> FALSE, debug |-> FALSE, parallel |-> FALSE,
                 has_task_args |-> FALSE, task_args |-> <<>>]
        options ==
            {none,
             [none EXCEPT !.task = "build", !.file = "Pfyfile.b", !.hosts = "web", !.env = "prod",
                          !.dry_run = TRUE, !.has_task_args = TRUE, !.task_args = <<"a">>],
             [none EXCEPT !.task = "build", !.debug = TRUE, !.has_task_args = TRUE],
             [none EXCEPT !.task = "build", !.parallel = TRUE]}
    IN
    {[kind |-> "SystemExit", code_is_none |-> FALSE, code |-> x, command |-> "None",
      subcommand |-> "absent", opts |-> none] : x \in {0, 2}}
    \cup {[kind |-> "SystemExit", code_is_none |-> TRUE, code |-> 0, command |-> "None",
           subcommand |-> "absent", opts |-> none]}
    \cup {[kind |-> "parsed", code_is_none |-> TRUE, code |-> 0, command |-> cmd,
           subcommand |-> sub, opts |-> o] :
            cmd \in {"None", "prune", "debug-on", "debug-off", "list", "help", "run", "other"},
            sub \in {"absent", "None", "deploy"}, o \in options}

\* run_task_by_name(task_name=..., file_arg=args.file, ...): the call, with
\* getattr(args, 'task_args', []) for the trailing arguments.
run_task_by_name(task_name, args) ==
    [fn |-> "run_task_by_name", task_name |-> task_name, file_arg |-> args.opts.file,
     hosts_arg |-> args.opts.hosts, env_arg |-> args.opts.env, dry_run |-> args.opts.dry_run,
     debug |-> args.opts.debug, parallel |-> args.opts.parallel,
     task_args |-> IF args.opts.has_task_args THEN args.opts.task_args ELSE <<>>]

\* handle_run_command(args) (pf_task_executor.py:32-43): the calls it makes.
handle_run_command(args) == <<run_task_by_name(args.opts.task, args)>>

\* The subcommand is run whether or not it is named.
handle_subcommand_unguarded(args) == <<run_task_by_name(args.subcommand, args)>>

\* handle_subcommand(args) (pf_task_executor.py:45-64): no call when the
\* subcommand attribute is missing or empty.
handle_subcommand(args) ==
    IF args.subcommand \in {"absent", "None"} THEN <<>>
    ELSE <<run_task_by_name(args.subcommand, args)>>

\* _route_command's choice of handler (lines 114-132); "none" when it calls
\* no handler.
Handler(parsed) ==
    IF parsed.command = "prune" THEN "handle_prune_command"
    ELSE IF parsed.command = "debug-on" THEN "handle_debug_on_command"
    ELSE IF parsed.command = "debug-off" THEN "handle_debug_off_command"
    ELSE IF parsed.command = "list" THEN "handle_list_command"
    ELSE IF parsed.command = "help" THEN "handle_help_command"
    ELSE IF parsed.command = "run" THEN "handle_run_command"
    ELSE IF parsed.subcommand # "absent" THEN "handle_subcommand"
    ELSE "none"

\* What a handler can end in. The builtin handlers catch every Exception and
\* answer 0 or 1; handle_run_command and handle_subcommand hand on whatever
\* run_task_by_name returns or raises; handle_subcommand answers 1 without
\* running anything when the subcommand attribute is empty.
HandlerOutcomes(parsed) ==
    LET h == Handler(parsed) IN
    IF h = "none" THEN {Return(1)}
    ELSE IF h = "handle_subcommand" /\ parsed.subcommand = "None" THEN {Return(1)}
    ELSE IF h \in {"handle_run_command", "handle_subcommand"}
        THEN {Return(0), Return(1), Return(2), Uncaught("PFException"), Uncaught("Exception")}
    ELSE {Return(0), Return(1)}

\* What the autocorrect module does when asked: it cannot be imported, it has
\* nothing to suggest, it suggests an invocation, or it fails.
AutocorrectOutcomes == {"ImportError", "nothing", "suggestion", "raises"}

\* _try_autocorrect(args, error) (lines 134-156): TRUE exactly when a
\* correction was suggested.
_try_autocorrect(auto) == auto = "suggestion"

\* The except Exception branch of run_command (lines 72-78): its exit code.
ExitAfterUntypedError(auto) == IF _try_autocorrect(auto) THEN Return(0) ELSE Return(1)

\* run_command(args) where the parser answers po, the handler ends in ho and
\* the autocorrect module does auto: the outcome and what was done.
run_command(c, po, ho, auto) ==
    LET args == _resolve_aliases(c, c.args)
        reg == [ev |-> "register_subcommands_with_parser"]
        parse == [ev |-> "parse_args", args |-> args, answer |-> po]
        route == [ev |-> "handler", name |-> Handler(po), outcome |-> ho,
                  calls |-> IF Handler(po) = "handle_run_command" THEN handle_run_command(po)
                            ELSE IF Handler(po) = "handle_subcommand" THEN handle_subcommand(po)
                            ELSE <<>>]
    IN
    IF po.kind = "SystemExit"
    THEN [ret |-> Return(IF ~po.code_is_none THEN po.code ELSE 1), io |-> <<reg, parse>>]
    ELSE IF ho.kind = "return" THEN [ret |-> ho, io |-> <<reg, parse, route>>]
    ELSE IF ho.exc = "PFException"
        THEN [ret |-> Return(1),
              io |-> <<reg, parse, route, [ev |-> "print_stderr", what |-> "error"]>>]
    ELSE [ret |-> ExitAfterUntypedError(auto),
          io |-> <<reg, parse, route,
                   IF _try_autocorrect(auto)
                   THEN [ev |-> "print_stderr", what |-> "Did you mean"]
                   ELSE [ev |-> "print_stderr", what |-> "error with traceback"]>>]

\* The longest argument list tried.
MaxArgs == 2

RunCalls ==
    {[fn |-> "run_command", args |-> a, alias_default |-> d, alias_file |-> f] :
        a \in Texts({A_f, A_file_eq \o <<"p">>, <<"p">>, <<"-", "h">>, <<"a", "l">>,
                     <<"l", "i", "s", "t">>, A_run}, MaxArgs),
        d, f \in {[ok |-> FALSE, map |-> <<>>], [ok |-> TRUE, map |-> <<>>],
                  [ok |-> TRUE, map |-> << <<<<"a", "l">>, <<"b", "u", "i", "l", "d">> >>,
                                           <<<<"l", "i", "s", "t">>, <<"l", "s">> >> >>]}}

RunInit == call \in RunCalls /\ ret = NoRet /\ io = <<>> /\ ExecutorIdle

CallRunCommand ==
    /\ call.fn = "run_command"
    /\ ret = NoRet
    /\ \E po \in ParseOutcomes :
       \E ho \in HandlerOutcomes(po) :
       \E auto \in AutocorrectOutcomes :
        LET x == run_command(call, po, ho, auto) IN
        /\ ret' = x.ret
        /\ io' = x.io
    /\ UNCHANGED call
    /\ UNCHANGED xvars

RunSpec == RunInit /\ [][CallRunCommand]_vars

\* ===================================================== claims: run_command

RunDone == call.fn = "run_command" /\ ret # NoRet

\* The handler run_command routed to raised.
HandlerRaised ==
    \E k \in 1..Len(io) : io[k].ev = "handler" /\ io[k].outcome.kind = "raise"

\* C8 as stated: when the handler raises, a PFException or any other
\* exception, run_command returns a non-zero exit code, suggestion or not.
C8_Original ==
    (RunDone /\ HandlerRaised) => (ret.kind = "return" /\ ret.value # 0)

\* ============================================================ pf_polyglot
\* A payload is a text whose fixed pieces (the builders' own words) are kept
\* whole, one element each; the snippet, the arguments and the language names
\* are texts of characters.

NL == "\n"

\* _POLY_DELIM (line 45)
_POLY_DELIM == "__PFY_LANG__"

\* _cmd_str(parts)
_cmd_str(parts) == QuoteJoin(parts)

\* _poly_args(args): the non-empty arguments, quoted and joined.
_poly_args(args) == QuoteJoin(SelectSeq(args, LAMBDA a : a # <<>>))

\* _ensure_newline(src)
_ensure_newline(src) ==
    IF src # <<>> /\ src[Len(src)] = NL THEN src ELSE Append(src, NL)

\* (f" {arg_str}" if arg_str else "")
ArgSuffix(arg_str) == IF arg_str # <<>> THEN <<" ">> \o arg_str ELSE <<>>

\* "cat <<'" + _POLY_DELIM + '\' > "$src"\n'
HeredocOpen == <<"cat <<'", _POLY_DELIM, "' > \"$src\"", NL>>

\* _build_script_command(interpreter_cmd, ext, code, args, basename)
_build_script_command(interpreter_cmd, ext, code0, args, basename) ==
    LET code == _ensure_newline(code0)
        arg_str == _poly_args(args)
    IN
    <<"tmpdir=$(mktemp -d)", NL, "src=\"$tmpdir/", basename, ext, "\"", NL>>
    \o HeredocOpen
    \o code
    \o <<_POLY_DELIM, NL, "chmod +x \"$src\" 2>/dev/null || true", NL>>
    \o interpreter_cmd \o <<" \"$src\"">>
    \o ArgSuffix(arg_str)
    \o <<NL, "rc=$?", NL, "rm -rf \"$tmpdir\"", NL, "exit $rc", NL>>

\* mapping (lines 106-112): what each placeholder of a template stands for.
mapping ==
    << <<"{src}", <<"\"$src\"">> >>, <<"{bin}", <<"\"$bin\"">> >>,
       <<"{dir}", <<"\"$tmpdir\"">> >>, <<"{classes}", <<"\"$classes\"">> >>,
       <<"{jar}", <<"\"$jar\"">> >> >>

RECURSIVE Format(_, _)
\* template.format(**map): every placeholder replaced by its text.
Format(template, map) ==
    IF template = <<>> THEN <<>>
    ELSE (IF template[1] \in DictKeys(map) THEN DictGet(map, template[1]) ELSE <<template[1]>>)
         \o Format(Tail(template), map)

\* _build_compile_command(ext, code, compiler_cmd, run_cmd, args, setup_lines,
\* basename, append_args)
_build_compile_command(ext, code0, compiler_cmd, run_cmd, args, setup_lines, basename, append_args) ==
    LET code == _ensure_newline(code0)
        arg_str == _poly_args(args)
        joined == JoinWith(<<NL>>, [i \in 1..Len(setup_lines) |-> <<setup_lines[i]>>])
        setup == IF joined # <<>> THEN Append(joined, NL) ELSE joined
        compiler == Format(compiler_cmd, mapping)
        run_mapping == Append(mapping, <<"{args}", arg_str>>)
        formatted == Format(run_cmd, run_mapping)
        runner == IF append_args /\ arg_str # <<>>
                  THEN formatted \o <<" ">> \o arg_str
                  ELSE formatted
    IN
    <<"tmpdir=$(mktemp -d)", NL, "src=\"$tmpdir/", basename, ext, "\"", NL,
      "bin=\"$tmpdir/pf_poly_bin\"", NL>>
    \o setup
    \o HeredocOpen
    \o code
    \o <<_POLY_DELIM, NL>>
    \o compiler
    \o <<NL, "rc=$?", NL, "if [ $rc -eq 0 ]; then", NL, "  ">>
    \o runner
    \o <<NL, "  rc=$?", NL, "fi", NL, "rm -rf \"$tmpdir\"", NL, "exit $rc", NL>>

\* POLYGLOT_LANGS: each key with the arguments of the profile that builds it.
POLYGLOT_LANGS ==
  <<
    <<<<"b", "a", "s", "h">>,
      [kind |-> "script", parts |-> <<<<"b", "a", "s", "h">>>>, ext |-> ".sh", compiler_cmd |-> <<>>,
          run_cmd |-> <<>>, setup_lines |-> <<>>, basename |-> "pf_poly", append_args |-> TRUE]>>,
    <<<<"s", "h">>,
      [kind |-> "script", parts |-> <<<<"s", "h">>>>, ext |-> ".sh", compiler_cmd |-> <<>>,
          run_cmd |-> <<>>, setup_lines |-> <<>>, basename |-> "pf_poly", append_args |-> TRUE]>>,
    <<<<"d", "a", "s", "h">>,
      [kind |-> "script", parts |-> <<<<"d", "a", "s", "h">>>>, ext |-> ".sh", compiler_cmd |-> <<>>,
          run_cmd |-> <<>>, setup_lines |-> <<>>, basename |-> "pf_poly", append_args |-> TRUE]>>,
    <<<<"z", "s", "h">>,
      [kind |-> "script", parts |-> <<<<"z", "s", "h">>>>, ext |-> ".sh", compiler_cmd |-> <<>>,
          run_cmd |-> <<>>, setup_lines |-> <<>>, basename |-> "pf_poly", append_args |-> TRUE]>>,
    <<<<"f", "i", "s", "h">>,
      [kind |-> "script", parts |-> <<<<"f", "i", "s", "h">>>>, ext |-> ".fish", compiler_cmd |-> <<>>,
          run_cmd |-> <<>>, setup_lines |-> <<>>, basename |-> "pf_poly", append_args |-> TRUE]>>,
    <<<<"k", "s", "h">>,
      [kind |-> "script", parts |-> <<<<"k", "s", "h">>>>, ext |-> ".sh", compiler_cmd |-> <<>>,
          run_cmd |-> <<>>, setup_lines |-> <<>>, basename |-> "pf_poly", append_args |-> TRUE]>>,
    <<<<"t", "c", "s", "h">>,
      [kind |-> "script", parts |-> <<<<"t", "c", "s", "h">>>>, ext |-> ".csh", compiler_cmd |-> <<>>,
          run_cmd |-> <<>>, setup_lines |-> <<>>, basename |-> "pf_poly", append_args |-> TRUE]>>,
    <<<<"p", "w", "s", "h">>,
      [kind |-> "script", parts |-> <<<<"p", "w", "s", "h">>, <<"-", "N", "o", "L", "o", "g", "o">>, <<"-", "N", "o", "n", "I", "n", "t", "e", "r", "a", "c", "t", "i", "v", "e">>, <<"-", "F", "i", "l", "e">>>>, ext |-> ".ps1", compiler_cmd |-> <<>>,
          run_cmd |-> <<>>, setup_lines |-> <<>>, basename |-> "pf_poly", append_args |-> TRUE]>>,
    <<<<"p", "y", "t", "h", "o", "n">>,
      [kind |-> "script", parts |-> <<<<"p", "y", "t", "h", "o", "n", "3">>>>, ext |-> ".py", compiler_cmd |-> <<>>,
          run_cmd |-> <<>>, setup_lines |-> <<>>, basename |-> "pf_poly", append_args |-> TRUE]>>,
    <<<<"n", "o", "d", "e">>,
      [kind |-> "script", parts |-> <<<<"n", "o", "d", "e">>>>, ext |-> ".js", compiler_cmd |-> <<>>,
          run_cmd |-> <<>>, setup_lines |-> <<>>, basename |-> "pf_poly", append_args |-> TRUE]>>,
    <<<<"d", "e", "n", "o">>,
      [kind |-> "script", parts |-> <<<<"d", "e", "n", "o">>, <<"r", "u", "n">>>>, ext |-> ".ts", compiler_cmd |-> <<>>,
          run_cmd |-> <<>>, setup_lines |-> <<>>, basename |-> "pf_poly", append_args |-> TRUE]>>,
    <<<<"t", "s", "-", "n", "o", "d", "e">>,
      [kind |-> "script", parts |-> <<<<"t", "s", "-", "n", "o", "d", "e">>>>, ext |-> ".ts", compiler_cmd |-> <<>>,
          run_cmd |-> <<>>, setup_lines |-> <<>>, basename |-> "pf_poly", append_args |-> TRUE]>>,
    <<<<"p", "e", "r", "l">>,
      [kind |-> "script", parts |-> <<<<"p", "e", "r", "l">>>>, ext |-> ".pl", compiler_cmd |-> <<>>,
          run_cmd |-> <<>>, setup_lines |-> <<>>, basename |-> "pf_poly", append_args |-> TRUE]>>,
    <<<<"p", "h", "p">>,
      [kind |-> "script", parts |-> <<<<"p", "h", "p">>>>, ext |-> ".php", compiler_cmd |-> <<>>,
          run_cmd |-> <<>>, setup_lines |-> <<>>, basename |-> "pf_poly", append_args |-> TRUE]>>,
    <<<<"r", "u", "b", "y">>,
      [kind |-> "script", parts |-> <<<<"r", "u", "b", "y">>>>, ext |-> ".rb", compiler_cmd |-> <<>>,
          run_cmd |-> <<>>, setup_lines |-> <<>>, basename |-> "pf_poly", append_args |-> TRUE]>>,
    <<<<"r">>,
      [kind |-> "script", parts |-> <<<<"R", "s", "c", "r", "i", "p", "t">>>>, ext |-> ".R", compiler_cmd |-> <<>>,
          run_cmd |-> <<>>, setup_lines |-> <<>>, basename |-> "pf_poly", append_args |-> TRUE]>>,
    <<<<"j", "u", "l", "i", "a">>,
      [kind |-> "script", parts |-> <<<<"j", "u", "l", "i", "a">>>>, ext |-> ".jl", compiler_cmd |-> <<>>,
          run_cmd |-> <<>>, setup_lines |-> <<>>, basename |-> "pf_poly", append_args |-> TRUE]>>,
    <<<<"h", "a", "s", "k", "e", "l", "l">>,
      [kind |-> "script", parts |-> <<<<"r", "u", "n", "g", "h", "c">>>>, ext |-> ".hs", compiler_cmd |-> <<>>,
          run_cmd |-> <<>>, setup_lines |-> <<>>, basename |-> "pf_poly", append_args |-> TRUE]>>,
    <<<<"o", "c", "a", "m", "l">>,
      [kind |-> "script", parts |-> <<<<"o", "c", "a", "m", "l">>>>, ext |-> ".ml", compiler_cmd |-> <<>>,
          run_cmd |-> <<>>, setup_lines |-> <<>>, basename |-> "pf_poly", append_args |-> TRUE]>>,
    <<<<"e", "l", "i", "x", "i", "r">>,
      [kind |-> "script", parts |-> <<<<"e", "l", "i", "x", "i", "r">>>>, ext |-> ".exs", compiler_cmd |-> <<>>,
          run_cmd |-> <<>>, setup_lines |-> <<>>, basename |-> "pf_poly", append_args |-> TRUE]>>,
    <<<<"d", "a", "r", "t">>,
      [kind |-> "script", parts |-> <<<<"d", "a", "r", "t">>, <<"r", "u", "n">>>>, ext |-> ".dart", compiler_cmd |-> <<>>,
          run_cmd |-> <<>>, setup_lines |-> <<>>, basename |-> "pf_poly", append_args |-> TRUE]>>,
    <<<<"l", "u", "a">>,
      [kind |-> "script", parts |-> <<<<"l", "u", "a">>>>, ext |-> ".lua", compiler_cmd |-> <<>>,
          run_cmd |-> <<>>, setup_lines |-> <<>>, basename |-> "pf_poly", append_args |-> TRUE]>>,
    <<<<"g", "o">>,
      [kind |-> "script", parts |-> <<<<"g", "o">>, <<"r", "u", "n">>>>, ext |-> ".go", compiler_cmd |-> <<>>,
          run_cmd |-> <<>>, setup_lines |-> <<>>, basename |-> "pf_poly", append_args |-> TRUE]>>,
    <<<<"r", "u", "s", "t">>,
      [kind |-> "compile", parts |-> <<>>, ext |-> ".rs", compiler_cmd |-> <<"rustc ", "{src}", " -o ", "{bin}">>,
          run_cmd |-> <<"{bin}">>, setup_lines |-> <<>>, basename |-> "pf_poly", append_args |-> TRUE]>>,
    <<<<"c">>,
      [kind |-> "compile", parts |-> <<>>, ext |-> ".c", compiler_cmd |-> <<"clang -x c ", "{src}", " -o ", "{bin}">>,
          run_cmd |-> <<"{bin}">>, setup_lines |-> <<>>, basename |-> "pf_poly", append_args |-> TRUE]>>,
    <<<<"c", "p", "p">>,
      [kind |-> "compile", parts |-> <<>>, ext |-> ".cc", compiler_cmd |-> <<"clang++ ", "{src}", " -o ", "{bin}">>,
          run_cmd |-> <<"{bin}">>, setup_lines |-> <<>>, basename |-> "pf_poly", append_args |-> TRUE]>>,
    <<<<"c", "-", "l", "l", "v", "m">>,
      [kind |-> "compile", parts |-> <<>>, ext |-> ".c", compiler_cmd |-> <<"clang -x c -O3 -S -emit-llvm ", "{src}", " -o ", "{bin}", ".ll && cat ", "{bin}", ".ll">>,
          run_cmd |-> <<"echo '(LLVM IR generated with O3 optimization)'">>, setup_lines |-> <<>>, basename |-> "pf_poly", append_args |-> TRUE]>>,
    <<<<"c", "p", "p", "-", "l", "l", "v", "m">>,
      [kind |-> "compile", parts |-> <<>>, ext |-> ".cc", compiler_cmd |-> <<"clang++ -O3 -S -emit-llvm ", "{src}", " -o ", "{bin}", ".ll && cat ", "{bin}", ".ll">>,
          run_cmd |-> <<"echo '(LLVM IR generated with O3 optimization)'">>, setup_lines |-> <<>>, basename |-> "pf_poly", append_args |-> TRUE]>>,
    <<<<"c", "-", "l", "l", "v", "m", "-", "b", "c">>,
      [kind |-> "compile", parts |-> <<>>, ext |-> ".c", compiler_cmd |-> <<"clang -x c -O3 -c -emit-llvm ", "{src}", " -o ", "{bin}", ".bc && llvm-dis ", "{bin}", ".bc -o ", "{bin}", ".ll && cat ", "{bin}", ".ll">>,
          run_cmd |-> <<"echo '(LLVM bitcode generated with O3 optimization)'">>, setup_lines |-> <<>>, basename |-> "pf_poly", append_args |-> TRUE]>>,
    <<<<"c", "p", "p", "-", "l", "l", "v", "m", "-", "b", "c">>,
      [kind |-> "compile", parts |-> <<>>, ext |-> ".cc", compiler_cmd |-> <<"clang++ -O3 -c -emit-llvm ", "{src}", " -o ", "{bin}", ".bc && llvm-dis ", "{bin}", ".bc -o ", "{bin}", ".ll && cat ", "{bin}", ".ll">>,
          run_cmd |-> <<"echo '(LLVM bitcode generated with O3 optimization)'">>, setup_lines |-> <<>>, basename |-> "pf_poly", append_args |-> TRUE]>>,
    <<<<"f", "o", "r", "t", "r", "a", "n">>,
      [kind |-> "compile", parts |-> <<>>, ext |-> ".f90", compiler_cmd |-> <<"gfortran ", "{src}", " -o ", "{bin}">>,
          run_cmd |-> <<"{bin}">>, setup_lines |-> <<>>, basename |-> "pf_poly", append_args |-> TRUE]>>,
    <<<<"f", "o", "r", "t", "r", "a", "n", "-", "l", "l", "v", "m">>,
      [kind |-> "compile", parts |-> <<>>, ext |-> ".f90", compiler_cmd |-> <<"flang -O3 ", "{src}", " -S -emit-llvm -o ", "{bin}", ".ll && cat ", "{bin}", ".ll">>,
          run_cmd |-> <<"echo '(LLVM IR generated with O3 optimization)'">>, setup_lines |-> <<>>, basename |-> "pf_poly", append_args |-> TRUE]>>,
    <<<<"a", "s", "m">>,
      [kind |-> "compile", parts |-> <<>>, ext |-> ".s", compiler_cmd |-> <<"clang -x assembler ", "{src}", " -o ", "{bin}">>,
          run_cmd |-> <<"{bin}">>, setup_lines |-> <<>>, basename |-> "pf_poly", append_args |-> TRUE]>>,
    <<<<"z", "i", "g">>,
      [kind |-> "compile", parts |-> <<>>, ext |-> ".zig", compiler_cmd |-> <<"zig build-exe -O Debug -femit-bin=", "{bin}", " ", "{src}">>,
          run_cmd |-> <<"{bin}">>, setup_lines |-> <<>>, basename |-> "pf_poly", append_args |-> TRUE]>>,
    <<<<"n", "i", "m">>,
      [kind |-> "compile", parts |-> <<>>, ext |-> ".nim", compiler_cmd |-> <<"nim c -o:", "{bin}", " ", "{src}">>,
          run_cmd |-> <<"{bin}">>, setup_lines |-> <<>>, basename |-> "pf_poly", append_args |-> TRUE]>>,
    <<<<"c", "r", "y", "s", "t", "a", "l">>,
      [kind |-> "compile", parts |-> <<>>, ext |-> ".cr", compiler_cmd |-> <<"crystal build -o ", "{bin}", " ", "{src}">>,
          run_cmd |-> <<"{bin}">>, setup_lines |-> <<>>, basename |-> "pf_poly", append_args |-> TRUE]>>,
    <<<<"h", "a", "s", "k", "e", "l", "l", "-", "c", "o", "m", "p", "i", "l", "e">>,
      [kind |-> "compile", parts |-> <<>>, ext |-> ".hs", compiler_cmd |-> <<"ghc -o ", "{bin}", " ", "{src}">>,
          run_cmd |-> <<"{bin}">>, setup_lines |-> <<>>, basename |-> "pf_poly", append_args |-> TRUE]>>,
    <<<<"o", "c", "a", "m", "l", "c">>,
      [kind |-> "compile", parts |-> <<>>, ext |-> ".ml", compiler_cmd |-> <<"ocamlc -o ", "{bin}", " ", "{src}">>,
          run_cmd |-> <<"{bin}">>, setup_lines |-> <<>>, basename |-> "pf_poly", append_args |-> TRUE]>>,
    <<<<"j", "a", "v", "a", "-", "o", "p", "e", "n", "j", "d", "k">>,
      [kind |-> "compile", parts |-> <<>>, ext |-> ".java", compiler_cmd |-> <<"javac -d ", "{classes}", " ", "{src}">>,
          run_cmd |-> <<"(cd ", "{classes}", " && java Main", "{args}", ")">>, setup_lines |-> <<"classes=\"$tmpdir/classes\"", "mkdir -p \"$classes\"">>, basename |-> "Main", append_args |-> FALSE]>>,
    <<<<"j", "a", "v", "a", "-", "a", "n", "d", "r", "o", "i", "d">>,
      [kind |-> "java-android", parts |-> <<>>, ext |-> "", compiler_cmd |-> <<>>,
          run_cmd |-> <<>>, setup_lines |-> <<>>, basename |-> "pf_poly", append_args |-> TRUE]>>
  >>

\* POLYGLOT_ALIASES
POLYGLOT_ALIASES ==
  <<
    <<<<"s", "h", "e", "l", "l">>, <<"b", "a", "s", "h">>>>,
    <<<<"s", "h">>, <<"s", "h">>>>,
    <<<<"z", "s", "h", "e", "l", "l">>, <<"z", "s", "h">>>>,
    <<<<"p", "o", "w", "e", "r", "s", "h", "e", "l", "l">>, <<"p", "w", "s", "h">>>>,
    <<<<"p", "s", "1">>, <<"p", "w", "s", "h">>>>,
    <<<<"p", "y">>, <<"p", "y", "t", "h", "o", "n">>>>,
    <<<<"p", "y", "t", "h", "o", "n", "3">>, <<"p", "y", "t", "h", "o", "n">>>>,
    <<<<"i", "p", "y", "t", "h", "o", "n">>, <<"p", "y", "t", "h", "o", "n">>>>,
    <<<<"j", "a", "v", "a", "s", "c", "r", "i", "p", "t">>, <<"n", "o", "d", "e">>>>,
    <<<<"j", "s">>, <<"n", "o", "d", "e">>>>,
    <<<<"n", "o", "d", "e", "j", "s">>, <<"n", "o", "d", "e">>>>,
    <<<<"t", "s">>, <<"d", "e", "n", "o">>>>,
    <<<<"t", "y", "p", "e", "s", "c", "r", "i", "p", "t">>, <<"d", "e", "n", "o">>>>,
    <<<<"t", "s", "n", "o", "d", "e">>, <<"t", "s", "-", "n", "o", "d", "e">>>>,
    <<<<"c", "+", "+">>, <<"c", "p", "p">>>>,
    <<<<"c", "x", "x">>, <<"c", "p", "p">>>>,
    <<<<"c", "l", "a", "n", "g">>, <<"c">>>>,
    <<<<"c", "l", "a", "n", "g", "+", "+">>, <<"c", "p", "p">>>>,
    <<<<"g", "+", "+">>, <<"c", "p", "p">>>>,
    <<<<"g", "c", "c">>, <<"c">>>>,
    <<<<"c", "-", "i", "r">>, <<"c", "-", "l", "l", "v", "m">>>>,
    <<<<"c", "-", "l", "l">>, <<"c", "-", "l", "l", "v", "m">>>>,
    <<<<"c", "p", "p", "-", "i", "r">>, <<"c", "p", "p", "-", "l", "l", "v", "m">>>>,
    <<<<"c", "p", "p", "-", "l", "l">>, <<"c", "p", "p", "-", "l", "l", "v", "m">>>>,
    <<<<"c", "-", "b", "c">>, <<"c", "-", "l", "l", "v", "m", "-", "b", "c">>>>,
    <<<<"c", "p", "p", "-", "b", "c">>, <<"c", "p", "p", "-", "l", "l", "v", "m", "-", "b", "c">>>>,
    <<<<"f", "o", "r", "t", "r", "a", "n", "-", "l", "l">>, <<"f", "o", "r", "t", "r", "a", "n", "-", "l", "l", "v", "m">>>>,
    <<<<"f", "o", "r", "t", "r", "a", "n", "-", "i", "r">>, <<"f", "o", "r", "t", "r", "a", "n", "-", "l", "l", "v", "m">>>>,
    <<<<"g", "o", "l", "a", "n", "g">>, <<"g", "o">>>>,
    <<<<"r", "b">>, <<"r", "u", "b", "y">>>>,
    <<<<"p", "l">>, <<"p", "e", "r", "l">>>>,
    <<<<"m", "l">>, <<"o", "c", "a", "m", "l">>>>,
    <<<<"h", "s">>, <<"h", "a", "s", "k", "e", "l", "l">>>>,
    <<<<"f", "o", "r", "t", "r", "a", "n", "9", "0">>, <<"f", "o", "r", "t", "r", "a", "n">>>>,
    <<<<"g", "f", "o", "r", "t", "r", "a", "n">>, <<"f", "o", "r", "t", "r", "a", "n">>>>,
    <<<<"j", "a", "v", "a">>, <<"j", "a", "v", "a", "-", "o", "p", "e", "n", "j", "d", "k">>>>,
    <<<<"j", "a", "v", "a", "-", "o", "p", "e", "n", "j", "d", "k">>, <<"j", "a", "v", "a", "-", "o", "p", "e", "n", "j", "d", "k">>>>,
    <<<<"j", "a", "v", "a", "-", "a", "n", "d", "r", "o", "i", "d", "-", "g", "o", "o", "g", "l", "e">>, <<"j", "a", "v", "a", "-", "a", "n", "d", "r", "o", "i", "d">>>>,
    <<<<"j", "a", "v", "a", "-", "a", "n", "d", "r", "o", "i", "d">>, <<"j", "a", "v", "a", "-", "a", "n", "d", "r", "o", "i", "d">>>>,
    <<<<"a", "n", "d", "r", "o", "i", "d", "-", "j", "a", "v", "a">>, <<"j", "a", "v", "a", "-", "a", "n", "d", "r", "o", "i", "d">>>>,
    <<<<"f", "i", "s", "h", "s", "h", "e", "l", "l">>, <<"f", "i", "s", "h">>>>,
    <<<<"s", "h", "e", "l", "l", "s", "c", "r", "i", "p", "t">>, <<"b", "a", "s", "h">>>>,
    <<<<"d", "a", "s", "h", "s", "h", "e", "l", "l">>, <<"d", "a", "s", "h">>>>,
    <<<<"a", "s", "m", "8", "6">>, <<"a", "s", "m">>>>
  >>

\* The payload text of _java_android_builder (lines 223-273).
JavaAndroidBody(code, arg_str) ==
    <<"tmpdir=$(mktemp -d)", NL, "src=\"$tmpdir/Main.java\"", NL, "classes=\"$tmpdir/classes\"",
        NL, "dexdir=\"$tmpdir/dex\"", NL, "mkdir -p \"$classes\" \"$dexdir\"", NL, "cat <<'",
        _POLY_DELIM, "' > \"$src\"", NL>>
    \o code
    \o <<_POLY_DELIM, NL, NL, "ANDROID_SDK=\"${ANDROID_SDK_ROOT:-${ANDROID_HOME:-}}\"", NL,
        "platform_jar=\"${ANDROID_PLATFORM_JAR:-}\"", NL,
        "if [ -z \"$platform_jar\" ] && [ -n \"$ANDROID_SDK\" ]; then", NL,
        "  latest_platform=$(ls -1 \"$ANDROID_SDK/platforms\" 2>/dev/null | sort -V | tail -1)",
        NL,
        "  if [ -n \"$latest_platform\" ] && [ -f \"$ANDROID_SDK/platforms/$latest_platform/android.jar\" ]; then",
        NL, "    platform_jar=\"$ANDROID_SDK/platforms/$latest_platform/android.jar\"", NL, "  fi",
        NL, "fi", NL, "javac_cp=\"\"", NL,
        "if [ -n \"$platform_jar\" ] && [ -f \"$platform_jar\" ]; then", NL,
        "  javac_cp=\"-classpath $platform_jar\"", NL, "fi", NL,
        "javac $javac_cp -d \"$classes\" \"$src\"", NL, "rc=$?", NL, "if [ $rc -ne 0 ]; then", NL,
        "  rm -rf \"$tmpdir\"", NL, "  exit $rc", NL, "fi", NL, NL, "d8_bin=\"${ANDROID_D8:-}\"",
        NL, "if [ -z \"$d8_bin\" ] && [ -n \"$ANDROID_SDK\" ]; then", NL,
        "  latest_bt=$(ls -1 \"$ANDROID_SDK/build-tools\" 2>/dev/null | sort -V | tail -1)", NL,
        "  if [ -n \"$latest_bt\" ] && [ -x \"$ANDROID_SDK/build-tools/$latest_bt/d8\" ]; then",
        NL, "    d8_bin=\"$ANDROID_SDK/build-tools/$latest_bt/d8\"", NL, "  fi", NL, "fi", NL, NL,
        "if [ -n \"$d8_bin\" ] && command -v dalvikvm >/dev/null 2>&1; then", NL,
        "  \"$d8_bin\" --output \"$dexdir\" \"$classes\" >/dev/null", NL, "  rc=$?", NL,
        "  if [ $rc -eq 0 ]; then", NL, "    dalvikvm -cp \"$dexdir/classes.dex\" Main">>
    \o ArgSuffix(arg_str)
    \o <<NL, "    rc=$?", NL, "    rm -rf \"$tmpdir\"", NL, "    exit $rc", NL, "  fi", NL, "fi",
        NL, NL, "(cd \"$classes\" && java Main">>
    \o ArgSuffix(arg_str)
    \o <<")", NL, "rc=$?", NL, "rm -rf \"$tmpdir\"", NL, "exit $rc", NL>>

\* _java_android_builder: builder(code, args) (lines 220-274)
_java_android_builder(code0, args) ==
    JavaAndroidBody(_ensure_newline(code0), _poly_args(args))

\* A builder that names the temporary directory itself once one exists.
BuilderNamingTmpdir(b, code, args) ==
    IF sh.tmpdir = "none" THEN <<"tmpdir=$(mktemp -d)", NL>> ELSE <<"tmpdir=/tmp/pf_poly", NL>>

\* builder(snippet, lang_args) for the builder b of the registry: the closure
\* of _script_profile, of _compile_profile or of _java_android_builder.
builder(b, code, args) ==
    IF b.kind = "script"
        THEN _build_script_command(_cmd_str(b.parts), b.ext, code, args, b.basename)
    ELSE IF b.kind = "compile"
        THEN _build_compile_command(b.ext, code, b.compiler_cmd, b.run_cmd, args,
                                    b.setup_lines, b.basename, b.append_args)
    ELSE _java_android_builder(code, args)

\* list(d.keys())
KeyList(d) == [i \in 1..Len(d) |-> d[i][1]]

\* ------------------------------------------------------ str.strip, lower

StripChars == {" ", "\t", "\n", "\r", "\f"}

RECURSIVE LStrip(_)
LStrip(s) == IF s # <<>> /\ s[1] \in StripChars THEN LStrip(Tail(s)) ELSE s

RECURSIVE RStrip(_)
RStrip(s) ==
    IF s # <<>> /\ s[Len(s)] \in StripChars THEN RStrip(SubSeq(s, 1, Len(s) - 1)) ELSE s

\* s.strip()
Strip(s) == RStrip(LStrip(s))

UpperCase ==
    <<"A","B","C","D","E","F","G","H","I","J","K","L","M","N","O","P","Q","R",
      "S","T","U","V","W","X","Y","Z">>
LowerCase ==
    <<"a","b","c","d","e","f","g","h","i","j","k","l","m","n","o","p","q","r",
      "s","t","u","v","w","x","y","z">>

\* The hint is taken in the case it was written in.
CaseKept(s) == s

\* s.lower()
Lower(s) ==
    LET LowerChar(c) ==
            IF \E i \in 1..Len(UpperCase) : UpperCase[i] = c
            THEN LowerCase[CHOOSE i \in 1..Len(UpperCase) : UpperCase[i] = c]
            ELSE c
    IN [i \in 1..Len(s) |-> LowerChar(s[i])]

\* _canonical_lang(lang_hint)
_canonical_lang(lang_hint) ==
    LET lang_key == Lower(Strip(lang_hint)) IN
    IF lang_key \in DictKeys(POLYGLOT_ALIASES)
    THEN DictGet(POLYGLOT_ALIASES, lang_key)
    ELSE lang_key

\* -------------------------------------------------------- sorted(strings)

\* The printable characters in code point order.
Ascii ==
    <<" ", "!", "\"", "#", "$", "%", "&", "'", "(", ")", "*", "+", ",", "-", ".", "/",
      "0", "1", "2", "3", "4", "5", "6", "7", "8", "9", ":", ";", "<", "=", ">", "?", "@",
      "A","B","C","D","E","F","G","H","I","J","K","L","M","N","O","P","Q","R",
      "S","T","U","V","W","X","Y","Z", "[", "\\", "]", "^", "_", Backtick,
      "a","b","c","d","e","f","g","h","i","j","k","l","m","n","o","p","q","r",
      "s","t","u","v","w","x","y","z", "{", "|", "}", "~">>

\* a < b for Python strings: by code point at the first difference, a proper
\* prefix before the longer string.
StrLess(a, b) ==
    LET Ord(c) == CHOOSE i \in 1..Len(Ascii) : Ascii[i] = c IN
    \E i \in 1..(Len(a) + 1) :
        /\ i <= Len(b)
        /\ \A j \in 1..(i - 1) : a[j] = b[j]
        /\ \/ i = Len(a) + 1
           \/ i <= Len(a) /\ Ord(a[i]) < Ord(b[i])

RECURSIVE InsertSorted(_, _)
InsertSorted(x, s) ==
    IF s = <<>> THEN <<x>>
    ELSE IF StrLess(x, s[1]) THEN <<x>> \o s
    ELSE <<s[1]>> \o InsertSorted(x, Tail(s))

RECURSIVE sorted(_)
\* sorted(list of strings)
sorted(s) ==
    IF s = <<>> THEN <<>>
    ELSE InsertSorted(s[Len(s)], sorted(SubSeq(s, 1, Len(s) - 1)))

\* ', '.join(POLYGLOT_LANGS.keys()): the keys as the registry holds them.
RegistryOrderListing == JoinWith(<<",", " ">>, KeyList(POLYGLOT_LANGS))

\* ', '.join(sorted(POLYGLOT_LANGS.keys())) (line 465)
SupportedListing == JoinWith(<<",", " ">>, sorted(KeyList(POLYGLOT_LANGS)))

\* ------------------------------------------------ _extract_polyglot_source

\* PFSyntaxError(message, file_path, suggestion); file_path is empty for None.
SourceFailure(message, file_path, suggestion) ==
    [kind |-> "raise", exc |-> "PFSyntaxError", message |-> message,
     file_path |-> file_path, suggestion |-> suggestion]

\* PFExecutionError(message, suggestion)
LanguageFailure(message, suggestion) ==
    [kind |-> "raise", exc |-> "PFExecutionError", message |-> message,
     suggestion |-> suggestion]

T_file_colon == <<"f", "i", "l", "e", ":">>

\* os.path.isabs(path)
isabs(path) == StartsWith(path, <<"/">>)

\* os.path.join(a, b)
join(a, b) ==
    IF isabs(b) THEN b
    ELSE IF a = <<>> \/ a[Len(a)] = "/" THEN a \o b
    ELSE a \o <<"/">> \o b

\* os.path.exists(path) in the file system of the call: its files (a dict
\* from path to content) and its directories.
exists(c, path) == path \in DictKeys(c.files) \/ path \in c.dirs

\* _extract_polyglot_source(cmd, base_dir): Return([code, tokens, full_path])
\* or a raise, and what it did to the file system. An empty base_dir stands
\* for None, an empty full_path for None.
_extract_polyglot_source(c, cmd, base_dir) ==
    LET split == ShlexSplit(cmd)
        tokens == split.tokens
        inline == Return([code |-> cmd, tokens |-> <<>>, full_path |-> <<>>])
    IN
    IF ~split.ok THEN [ret |-> Uncaught("ValueError"), io |-> <<>>]
    ELSE IF tokens = <<>> THEN [ret |-> inline, io |-> <<>>]
    ELSE IF StartsWith(tokens[1], <<"@">>) \/ StartsWith(tokens[1], T_file_colon)
    THEN
        IF base_dir = <<>>
        THEN [ret |-> SourceFailure(
                        <<"Cannot resolve polyglot source file: no base directory available">>,
                        <<>>, <<"Ensure the Pfyfile is in a valid directory">>),
              io |-> <<>>]
        ELSE
        LET source_token == tokens[1]
            rest == Tail(tokens)
            rel_path == IF StartsWith(source_token, <<"@">>)
                        THEN SubSeq(source_token, 2, Len(source_token))
                        ELSE SubSeq(source_token, 6, Len(source_token))
            full_path == IF isabs(rel_path) THEN rel_path ELSE join(base_dir, rel_path)
            probe == [ev |-> "os.path.exists", path |-> full_path]
            open == [ev |-> "open", path |-> full_path]
        IN
        IF ~exists(c, full_path)
        THEN [ret |-> SourceFailure(<<"Polyglot source file not found: ">> \o full_path,
                        full_path, <<"Check that the file path is correct and the file exists">>),
              io |-> <<probe>>]
        ELSE IF full_path \notin DictKeys(c.files)
        THEN [ret |-> Uncaught("IsADirectoryError"), io |-> <<probe, open>>]
        ELSE [ret |-> Return([code |-> DictGet(c.files, full_path),
                              tokens |-> IF rest # <<>> /\ rest[1] = <<"-", "-">>
                                         THEN Tail(rest) ELSE rest,
                              full_path |-> full_path]),
              io |-> <<probe, open>>]
    ELSE [ret |-> inline, io |-> <<>>]

\* ------------------------------------------------- render_polyglot_command

\* (None, None)
NothingRendered == [is_none |-> TRUE, rendered |-> <<>>, lang_key |-> <<>>]

\* render_polyglot_command(lang_hint, cmd, working_dir): the outcome and what
\* was done. An empty lang_hint stands for None as well.
render_polyglot_command(c) ==
    IF c.lang_hint = <<>> THEN [ret |-> Return(NothingRendered), io |-> <<>>]
    ELSE
    LET lang_key == _canonical_lang(c.lang_hint) IN
    IF lang_key \notin DictKeys(POLYGLOT_LANGS)
    THEN [ret |-> LanguageFailure(
                    <<"Language '">> \o lang_key \o <<"' (from '">> \o c.lang_hint
                        \o <<"') has no builder registered">>,
                    <<"Supported languages: ">> \o SupportedListing),
          io |-> <<>>]
    ELSE
    LET b == DictGet(POLYGLOT_LANGS, lang_key)
        resolve == [ev |-> "_extract_polyglot_source", cmd |-> c.cmd,
                    base_dir |-> c.working_dir]
        src == _extract_polyglot_source(c, c.cmd, c.working_dir)
    IN
    IF src.ret.kind = "raise"
    THEN [ret |-> src.ret, io |-> <<resolve>> \o src.io]
    ELSE
    LET snippet == src.ret.value.code
        lang_args == src.ret.value.tokens
    IN
    [ret |-> Return([is_none |-> FALSE, rendered |-> builder(b, snippet, lang_args),
                     lang_key |-> lang_key]),
     io |-> <<resolve>> \o src.io
            \o <<[ev |-> "builder", lang_key |-> lang_key, snippet |-> snippet,
                  args |-> lang_args]>>]

\* ------------------------------------------ the shell that runs a payload

\* The lines of a text, without their line ends; what follows the last line
\* end is a line when it is not empty.
Lines(s) ==
    LET ends == {i \in 1..Len(s) : s[i] = NL}
        n == Cardinality(ends)
        \* the position of the k-th line end
        end(k) == CHOOSE i \in ends : Cardinality({j \in ends : j < i}) = k - 1
        start(k) == IF k = 1 THEN 1 ELSE end(k - 1) + 1
        whole == [k \in 1..n |-> SubSeq(s, start(k), end(k) - 1)]
        last == SubSeq(s, start(n + 1), Len(s))
    IN IF last = <<>> THEN whole ELSE Append(whole, last)

\* The line redirects a here-document fenced by '__PFY_LANG__' into the file.
IsHeredocOpen(line) ==
    /\ Len(line) >= 2
    /\ line[1] = "cat <<'"
    /\ line[2] = _POLY_DELIM

RECURSIVE ShellRead(_, _, _, _)
\* The shell reads the payload from line i on: command lines it executes, up
\* to and including a here-document redirection; the lines after that go to
\* the file, up to the first line that is the delimiter and nothing else; and
\* on with the line after the delimiter.
ShellRead(lines, i, file, executed) ==
    LET Min(S) == CHOOSE x \in S : \A y \in S : x <= y
        opens == {k \in i..Len(lines) : IsHeredocOpen(lines[k])}
    IN
    IF opens = {}
    THEN [file |-> file, executed |-> executed \o SubSeq(lines, i, Len(lines))]
    ELSE
    LET h == Min(opens)
        closes == {k \in (h + 1)..Len(lines) : lines[k] = <<_POLY_DELIM>>}
        t == IF closes = {} THEN Len(lines) + 1 ELSE Min(closes)
    IN ShellRead(lines, t + 1, SubSeq(lines, h + 1, t - 1),
                 executed \o SubSeq(lines, i, h))

\* What running the payload does: the lines written to the staged source file
\* and the command lines executed.
ShellRun(payload) == ShellRead(Lines(payload), 1, <<>>, <<>>)

\* ------------------------------------------------------------------ calls

\* The longest inline snippet tried.
MaxSnippetLen == 4


\* Every key, every alias and some words that are neither, each as written,
\* in capitals, and with white space around it.
Hints ==
    LET UpperChar(c) ==
            IF \E i \in 1..Len(LowerCase) : LowerCase[i] = c
            THEN UpperCase[CHOOSE i \in 1..Len(LowerCase) : LowerCase[i] = c]
            ELSE c
        Upper(s) == [i \in 1..Len(s) |-> UpperChar(s[i])]
        words == DictKeys(POLYGLOT_LANGS) \cup DictKeys(POLYGLOT_ALIASES)
                 \cup {<<"c", "o", "b", "o", "l">>, <<"b", "a", "s", "h", "2">>,
                       <<"p", "y", " ", "3">>, <<>>}
    IN {l \o w \o r : l \in {<<>>, <<" ">>}, r \in {<<>>, <<NL>>},
                       w \in words \cup {Upper(v) : v \in words}}

\* A file system: one directory with one file in it.
D_dir == <<"/", "d">>
F_path == <<"/", "d", "/", "f">>
FileSystem ==
    [files |-> << <<F_path, <<"x", NL, _POLY_DELIM, NL, "x">> >> >>, dirs |-> {D_dir, <<"/">>}]

\* Source references: a file that is there, with and without arguments, one
\* that is not, an absolute path, a directory, a malformed command.
SourceCmds ==
    {<<"@", "f">>, <<"@", "f", " ", "-", "-", " ", "a">>, <<"@", "f", " ", "a", " ", "'", "'">>,
     T_file_colon \o <<"f">>, <<"@", "g">>, <<"@">> \o F_path, <<"@">> \o D_dir,
     <<"x">>, <<"'">>, <<" ">>}

RenderCall(h, cmd, wd) ==
    [fn |-> "render_polyglot_command", lang_hint |-> h, cmd |-> cmd, working_dir |-> wd,
     files |-> FileSystem.files, dirs |-> FileSystem.dirs]


PolyCalls ==
    \* the hints, each with an inline snippet, a reference to a missing file
    \* and a malformed command
    {RenderCall(h, cmd, <<>>) : h \in Hints, cmd \in {<<"x">>, <<"@", "g">>, <<"'">>}}
    \* the registered languages, each with every inline snippet
    \cup {RenderCall(k, cmd, D_dir) :
            k \in DictKeys(POLYGLOT_LANGS),
            cmd \in Texts({"x", NL, _POLY_DELIM}, MaxSnippetLen)}
    \* the source references, with and without a base directory
    \cup {RenderCall(h, cmd, wd) :
            h \in {<<"s", "h">>, <<"c">>, <<"j", "a", "v", "a">>, <<>>},
            cmd \in SourceCmds, wd \in {<<>>, D_dir}}

PolyInit == call \in PolyCalls /\ ret = NoRet /\ io = <<>> /\ ExecutorIdle

CallRender ==
    /\ call.fn = "render_polyglot_command"
    /\ ret = NoRet
    /\ LET x == render_polyglot_command(call) IN
        /\ ret' = x.ret
        /\ io' = x.io
    /\ UNCHANGED call
    /\ UNCHANGED xvars

PolySpec == PolyInit /\ [][CallRender]_vars

\* ================================================ claims: polyglot builder

RenderDone == call.fn = "render_polyglot_command" /\ ret # NoRet

\* A payload was rendered.
Rendered == RenderDone /\ ret.kind = "return" /\ ~ret.value.is_none

\* The registered keys in lexicographic order: the key at place i has exactly
\* i - 1 keys before it.
RankedKeys ==
    LET keys == DictKeys(POLYGLOT_LANGS) IN
    [i \in 1..Cardinality(keys) |->
        CHOOSE k \in keys : Cardinality({j \in keys : StrLess(j, k)}) = i - 1]

\* C4 as stated: when the shell runs a rendered payload, the staged source
\* file receives every line of the snippet, and the command lines executed
\* are the builder's own, those of the payload for an empty snippet.
C4_Original ==
    Rendered =>
        LET b == io[Len(io)]
            run == ShellRun(ret.value.rendered)
            own == ShellRun(builder(DictGet(POLYGLOT_LANGS, b.lang_key), <<>>, b.args))
        IN
        /\ run.file = Lines(_ensure_newline(b.snippet))
        /\ run.executed = own.executed

\* C10: a non-empty hint whose canonical form is not a registered key ends in
\* a PFExecutionError that lists every registered key in lexicographic order,
\* with the source not resolved, no file read and no builder called; and a
\* payload is only ever rendered by the builder of a registered key.
C10_UnknownLanguage ==
    /\ ( /\ RenderDone
         /\ call.lang_hint # <<>>
         /\ _canonical_lang(call.lang_hint) \notin DictKeys(POLYGLOT_LANGS) )
        => /\ ret.kind = "raise"
           /\ ret.exc = "PFExecutionError"
           /\ ret.suggestion
                = <<"Supported languages: ">> \o JoinWith(<<",", " ">>, RankedKeys)
           /\ io = <<>>
    /\ Rendered
        => /\ ret.value.lang_key = _canonical_lang(call.lang_hint)
           /\ ret.value.lang_key \in DictKeys(POLYGLOT_LANGS)
           /\ \A k \in 1..Len(io) :
                io[k].ev = "builder" => io[k].lang_key = ret.value.lang_key

\* An unknown language written in capitals with white space around it, with
\* a reference to a file that does not exist: the language error, nothing done.
C10_Witness ==
    /\ RenderDone
    /\ call.lang_hint = <<" ", "C", "O", "B", "O", "L", NL>>
    /\ call.cmd = <<"@", "g">>
    /\ ret.kind = "raise"
    /\ ret.exc = "PFExecutionError"
    /\ io = <<>>

\* The two texts are the same but for the case of their letters.
SameIgnoringCase(a, b) ==
    /\ Len(a) = Len(b)
    /\ \A i \in 1..Len(a) :
        \/ a[i] = b[i]
        \/ \E j \in 1..Len(UpperCase) : {a[i], b[i]} = {UpperCase[j], LowerCase[j]}

\* The hint is the word w in some case, with white space around it or not.
WrittenAs(hint, w) ==
    \E l \in {<<>>, <<" ">>}, r \in {<<>>, <<NL>>} :
        /\ Len(hint) = Len(l) + Len(w) + Len(r)
        /\ SubSeq(hint, 1, Len(l)) = l
        /\ SubSeq(hint, Len(hint) - Len(r) + 1, Len(hint)) = r
        /\ SameIgnoringCase(SubSeq(hint, Len(l) + 1, Len(hint) - Len(r)), w)

\* C11: every alias and the key it stands for have the same canonical form,
\* the key itself, and the key is registered; a key is its own canonical form;
\* and a hint that is a key or an alias in any case, with or without white
\* space around it, is rendered by the builder of that key.
C11_Canonical ==
    /\ \A i \in 1..Len(POLYGLOT_ALIASES) :
        LET alias == POLYGLOT_ALIASES[i][1]
            key == POLYGLOT_ALIASES[i][2]
        IN /\ _canonical_lang(alias) = key
           /\ _canonical_lang(key) = key
           /\ key \in DictKeys(POLYGLOT_LANGS)
    /\ \A key \in DictKeys(POLYGLOT_LANGS) : _canonical_lang(key) = key
    /\ RenderDone =>
        /\ \A i \in 1..Len(POLYGLOT_ALIASES) :
            WrittenAs(call.lang_hint, POLYGLOT_ALIASES[i][1])
                => /\ _canonical_lang(call.lang_hint) = POLYGLOT_ALIASES[i][2]
                   /\ ret.kind = "return" => ret.value.lang_key = POLYGLOT_ALIASES[i][2]
                   /\ ~(ret.kind = "raise" /\ ret.exc = "PFExecutionError")
        /\ \A key \in DictKeys(POLYGLOT_LANGS) :
            WrittenAs(call.lang_hint, key)
                => /\ _canonical_lang(call.lang_hint) = key
                   /\ ret.kind = "return" => ret.value.lang_key = key
                   /\ ~(ret.kind = "raise" /\ ret.exc = "PFExecutionError")
        /\ _canonical_lang(_canonical_lang(call.lang_hint)) = _canonical_lang(call.lang_hint)

\* The alias py in capitals between a space and a newline: the python builder.
C11_Witness ==
    /\ Rendered
    /\ call.lang_hint = <<" ", "P", "Y", NL>>
    /\ ret.value.lang_key = <<"p", "y", "t", "h", "o", "n">>


\* ================================================ the payload under the shell

\* _build_browser_js_command(code, args) (lines 138-166); textwrap.indent puts
\* the prefix before every line that is not blank.
_build_browser_js_command(code0, args) ==
    LET code == _ensure_newline(code0)
        arg_str == _poly_args(args)
        ls == Lines(code)
        prefixed(l) == IF \E i \in 1..Len(l) : l[i] \notin StripChars THEN <<"  ">> \o l ELSE l
        joined == JoinWith(<<NL>>, [k \in 1..Len(ls) |-> prefixed(ls[k])])
        snippet == IF code[Len(code)] = NL THEN Append(joined, NL) ELSE joined
        body == <<"const { chromium } = require('playwright');", NL,
                  "(async () => {", NL,
                  "  const browser = await chromium.launch({ headless: process.env.PF_HEADFUL ? false : true });", NL,
                  "  const page = await browser.newPage();", NL>>
                \o snippet
                \o <<"  await browser.close();", NL,
                     "})().catch(err => {", NL,
                     "  console.error(err);", NL,
                     "  process.exit(1);", NL,
                     "});", NL>>
    IN
    <<"tmpdir=$(mktemp -d)", NL, "src=\"$tmpdir/pf_poly_browser.mjs\"", NL>>
    \o HeredocOpen
    \o body
    \o <<_POLY_DELIM, NL, "node", " \"$src\"">>
    \o ArgSuffix(arg_str)
    \o <<NL, "rc=$?", NL, "rm -rf \"$tmpdir\"", NL, "exit $rc", NL>>

\* The longest snippet put into a payload that is run.
MaxPayloadSnippetLen == 3

\* The payloads run: of interpreted and compiled languages and of the browser
\* profile, over snippets with and without delimiter lines and lines that,
\* read as a command, end the shell ("exit 3;"), with and without an argument.
PayloadCalls ==
    LET langs == {<<"p", "y", "t", "h", "o", "n">>, <<"b", "a", "s", "h">>, <<"r", "u", "s", "t">>,
                  <<"c", "-", "l", "l", "v", "m">>,
                  <<"j", "a", "v", "a", "-", "o", "p", "e", "n", "j", "d", "k">>}
        snippets == Texts({"x", NL, _POLY_DELIM, "exit 3;"}, MaxPayloadSnippetLen)
        argvs == {<<>>, << <<"a">> >>}
    IN {[fn |-> "bash", profile |-> DictGet(POLYGLOT_LANGS, k).kind, lang_key |-> k,
         snippet |-> s, args |-> a,
         payload |-> builder(DictGet(POLYGLOT_LANGS, k), s, a)] :
            k \in langs, s \in snippets, a \in argvs}
       \cup
       {[fn |-> "bash", profile |-> "browser", lang_key |-> <<>>,
         snippet |-> s, args |-> a,
         payload |-> _build_browser_js_command(s, a)] : s \in snippets, a \in argvs}

PayloadInit == call \in PayloadCalls /\ ret = NoRet /\ io = <<>> /\ ExecutorIdle

\* bash is given the payload and reads it line by line.
ShellStart ==
    /\ call.fn = "bash"
    /\ sh = ShellIdle
    /\ sh' = [ShellIdle EXCEPT !.lines = Lines(call.payload), !.i = 1]
    /\ UNCHANGED <<call, ret, io, pc, fstate, fresult, starts, collected, rc_total, dbg>>

\* bash executes the command at its place in the payload: a here-document
\* redirection takes the lines up to the first delimiter line as the file; an
\* assignment, rc=$?, if ... fi and exit are the shell's own; a word that
\* names no program leaves 127; any other line starts a process, which leaves
\* with any status.
ShellStep ==
    /\ call.fn = "bash"
    /\ ret = NoRet
    /\ sh.i \in 1..Len(sh.lines)
    /\ LET line == sh.lines[sh.i]
           Min(S) == CHOOSE x \in S : \A y \in S : x <= y
           closes == {k \in (sh.i + 1)..Len(sh.lines) : sh.lines[k] = <<_POLY_DELIM>>}
           t == IF closes = {} THEN Len(sh.lines) + 1 ELSE Min(closes)
           fis == {k \in (sh.i + 1)..Len(sh.lines) : sh.lines[k] = <<"fi">>}
           fi == IF fis = {} THEN Len(sh.lines) ELSE Min(fis)
           \* the exit statuses a process is seen to leave with
           ProcessCodes == {0, 1, 2}
           on(status) == [sh EXCEPT !.i = sh.i + 1, !.status = status]
           Process(code) ==
               /\ sh' = on(code)
               /\ io' = Append(io, [ev |-> "run", line |-> line, code |-> code])
               /\ ret' = ret
           Exit(code) ==
               /\ ret' = Return(code)
               /\ io' = Append(io, [ev |-> "exit", code |-> code])
               /\ sh' = sh
       IN
       IF line = <<>> THEN
            sh' = on(sh.status) /\ UNCHANGED <<ret, io>>
       ELSE IF IsHeredocOpen(line) THEN
            /\ sh' = [sh EXCEPT !.i = t + 1, !.status = 0,
                                !.file = SubSeq(sh.lines, sh.i + 1, t - 1)]
            /\ io' = Append(io, [ev |-> "stage", file |-> SubSeq(sh.lines, sh.i + 1, t - 1)])
            /\ ret' = ret
       ELSE IF line = <<"tmpdir=$(mktemp -d)">> THEN
            /\ sh' = [on(0) EXCEPT !.tmpdir = "present"]
            /\ io' = Append(io, [ev |-> "mktemp"])
            /\ ret' = ret
       ELSE IF line[1] \in {"src=\"$tmpdir/", "src=\"$tmpdir/pf_poly_browser.mjs\"",
                            "bin=\"$tmpdir/pf_poly_bin\"", "classes=\"$tmpdir/classes\"",
                            "chmod +x \"$src\" 2>/dev/null || true"} THEN
            sh' = on(0) /\ UNCHANGED <<ret, io>>
       ELSE IF line \in {<<"rc=$?">>, <<"  rc=$?">>} THEN
            sh' = [on(0) EXCEPT !.rc = sh.status] /\ UNCHANGED <<ret, io>>
       ELSE IF line = <<"if [ $rc -eq 0 ]; then">> THEN
            /\ sh' = IF sh.rc = 0 THEN on(0) ELSE [sh EXCEPT !.i = fi + 1, !.status = 0]
            /\ UNCHANGED <<ret, io>>
       ELSE IF line = <<"fi">> THEN
            sh' = on(sh.status) /\ UNCHANGED <<ret, io>>
       ELSE IF line = <<"rm -rf \"$tmpdir\"">> THEN
            /\ sh' = [on(0) EXCEPT !.tmpdir = IF sh.tmpdir = "present" THEN "removed" ELSE @]
            /\ io' = Append(io, [ev |-> "rm"])
            /\ ret' = ret
       ELSE IF line = <<"exit $rc">> THEN
            Exit(IF sh.rc >= 0 THEN sh.rc ELSE sh.status)
       ELSE IF line[1] = "exit 3;" THEN
            Exit(3)
       ELSE IF line[1] \in {"x", _POLY_DELIM} THEN
            Process(127)
       ELSE \E code \in ProcessCodes : Process(code)
    /\ UNCHANGED <<call, pc, fstate, fresult, starts, collected, rc_total, dbg>>

PayloadSpec == PayloadInit /\ [][ShellStart \/ ShellStep]_vars

\* ================================================= claims: payload execution

PayloadDone == call.fn = "bash" /\ ret # NoRet

\* The command line of the interpreter step.
InterpreterLine ==
    (IF call.profile = "browser" THEN <<"node">>
     ELSE _cmd_str(DictGet(POLYGLOT_LANGS, call.lang_key).parts))
    \o <<" \"$src\"">> \o ArgSuffix(_poly_args(call.args))

\* C12 as stated: the payload of an interpreted language or of the browser
\* profile, once it has ended, has created the temporary directory, staged
\* the snippet, run the interpreter, removed the directory and exited, in
\* that order, with the interpreter's exit code, whatever that code was.
C12_Original ==
    (PayloadDone /\ call.profile \in {"script", "browser"}) =>
        \E a, b, c, d \in 1..Len(io) :
            /\ a < b /\ b < c /\ c < d /\ d < Len(io)
            /\ io[a].ev = "mktemp"
            /\ io[b].ev = "stage"
            /\ io[c].ev = "run" /\ io[c].line = InterpreterLine
            /\ io[d].ev = "rm"
            /\ io[Len(io)].ev = "exit"
            /\ ret = Return(io[c].code)
            /\ sh.tmpdir = "removed"

\* C13 as stated: the payload of a compiled language, once it has ended, has
\* run the compile step; it has run the run step exactly when the compile step
\* left 0; its exit code is the compiler's when that is not 0 and the run
\* step's otherwise; and the temporary directory was removed before the exit.
C13_Original ==
    (PayloadDone /\ call.profile = "compile") =>
        LET then == CHOOSE k \in 1..Len(sh.lines) : sh.lines[k] = <<"if [ $rc -eq 0 ]; then">>
            Steps(line) == {k \in 1..Len(io) : io[k].ev = "run" /\ io[k].line = line}
            compiles == Steps(sh.lines[then - 2])
            runs == Steps(sh.lines[then + 1])
        IN
        /\ Cardinality(compiles) = 1
        /\ \A c \in compiles :
            /\ (runs # {}) <=> (io[c].code = 0)
            /\ \A r \in runs : c < r
            /\ Cardinality(runs) <= 1
            /\ ret = Return(IF io[c].code # 0 THEN io[c].code
                            ELSE io[CHOOSE r \in runs : TRUE].code)
        /\ \E d \in 1..(Len(io) - 1) :
            /\ io[d].ev = "rm"
            /\ \A k \in compiles \cup runs : k < d
        /\ io[Len(io)].ev = "exit"
        /\ sh.tmpdir = "removed"

\* ============================================== claims: alias resolution

\* The place of the leading non-option argument: the first argument that does
\* not start with "-" and is not the value of a -f or --file before it (one
\* that follows an odd run of them); 0 when there is none.
LeadingWord(a) ==
    LET IsFileValue(i) ==
            \E n \in 1..(i - 1) :
                /\ n % 2 = 1
                /\ \A j \in (i - n)..(i - 1) : a[j] \in {<<"-", "f">>, <<"-", "-", "f", "i", "l", "e">>}
                /\ (i - n = 1 \/ a[i - n - 1] \notin {<<"-", "f">>, <<"-", "-", "f", "i", "l", "e">>})
        words == {i \in 1..Len(a) : ~StartsWith(a[i], <<"-">>) /\ ~IsFileValue(i)}
    IN IF words = {} THEN 0 ELSE CHOOSE i \in words : \A j \in words : i <= j

\* C14: the argument list handed to the argument parser is the one given with
\* its leading non-option argument A replaced by run, aliasMap[A] when A is no
\* builtin command and is a key of the alias map that loaded, the map of the
\* file named before A if one was; in every other case it is the list given;
\* and run_command ends in an exit code.
C14_AliasRewrite ==
    RunDone =>
        LET a == call.args
            w == LeadingWord(a)
            named == \E j \in 1..(w - 1) :
                        \/ a[j] \in {<<"-", "f">>, <<"-", "-", "f", "i", "l", "e">>}
                        \/ StartsWith(a[j], <<"-", "-", "f", "i", "l", "e", "=">>)
            aliases == IF named THEN call.alias_file ELSE call.alias_default
            names == {<<"l", "i", "s", "t">>, <<"h", "e", "l", "p">>, <<"r", "u", "n">>,
                      <<"p", "r", "u", "n", "e">>, <<"d", "e", "b", "u", "g", "-", "o", "n">>,
                      <<"d", "e", "b", "u", "g", "-", "o", "f", "f">>}
            hit == /\ w > 0
                   /\ a[w] \notin names
                   /\ aliases.ok
                   /\ \E k \in 1..Len(aliases.map) : aliases.map[k][1] = a[w]
            parsed == io[2].args
        IN
        /\ io[1].ev = "register_subcommands_with_parser"
        /\ io[2].ev = "parse_args"
        /\ \A k \in 3..Len(io) : io[k].ev # "parse_args"
        /\ hit =>
            /\ Len(parsed) = Len(a) + 1
            /\ \A j \in 1..(w - 1) : parsed[j] = a[j]
            /\ parsed[w] = <<"r", "u", "n">>
            /\ \E k \in 1..Len(aliases.map) :
                aliases.map[k][1] = a[w] /\ parsed[w + 1] = aliases.map[k][2]
            /\ \A j \in (w + 1)..Len(a) : parsed[j + 1] = a[j]
        /\ ~hit => parsed = a
        /\ ret.kind = "return"

C14_Witness ==
    /\ RunDone
    /\ call.args = <<A_file_eq \o <<"p">>, <<"a", "l">> >>
    /\ io[2].args = <<A_file_eq \o <<"p">>, A_run, <<"b", "u", "i", "l", "d">> >>

\* ======================================================== claims: routing

\* _route_command was called: the arguments were parsed.
Routed == RunDone /\ Len(io) >= 3 /\ io[3].ev = "handler"

\* The one call of run_task_by_name that hands on the namespace's file,
\* hosts, env, dry-run, debug, parallel and trailing arguments.
OneTaskCall(calls, task_name, o) ==
    calls = <<[fn |-> "run_task_by_name", task_name |-> task_name, file_arg |-> o.file,
               hosts_arg |-> o.hosts, env_arg |-> o.env, dry_run |-> o.dry_run,
               debug |-> o.debug, parallel |-> o.parallel,
               task_args |-> IF o.has_task_args THEN o.task_args ELSE <<>>]>>

\* C15 as stated: one handler is invoked, never two; none, with exit code 1,
\* when the invocation has neither a command nor a subcommand; and the run
\* handler and the subcommand handler each call run_task_by_name once, with
\* the task name and the namespace's options.
C15_Original ==
    Routed =>
        LET args == io[2].answer
            h == io[3]
            neither == args.command = "None" /\ args.subcommand \in {"absent", "None"}
        IN
        /\ Cardinality({k \in 1..Len(io) : io[k].ev = "handler"}) = 1
        /\ neither => (h.name = "none" /\ ret = Return(1))
        /\ ~neither => h.name # "none"
        /\ h.name = "handle_run_command" => OneTaskCall(h.calls, args.opts.task, args.opts)
        /\ h.name = "handle_subcommand" => OneTaskCall(h.calls, args.subcommand, args.opts)

\* C15, amended: the handler is the one of the command when that is one of
\* the six builtin ones; otherwise it is the subcommand handler when the
\* namespace has a subcommand attribute, and none, with exit code 1, when it
\* has not. The run handler calls run_task_by_name once with the task and the
\* namespace's options, the subcommand handler does so with the subcommand
\* when that is not empty and otherwise calls nothing and returns 1; no
\* other handler calls it.
C15_Amended ==
    Routed =>
        LET args == io[2].answer
            h == io[3]
            builtin == args.command \in {"prune", "debug-on", "debug-off", "list", "help", "run"}
        IN
        /\ Cardinality({k \in 1..Len(io) : io[k].ev = "handler"}) = 1
        /\ args.command = "prune" => h.name = "handle_prune_command"
        /\ args.command = "debug-on" => h.name = "handle_debug_on_command"
        /\ args.command = "debug-off" => h.name = "handle_debug_off_command"
        /\ args.command = "list" => h.name = "handle_list_command"
        /\ args.command = "help" => h.name = "handle_help_command"
        /\ args.command = "run" => h.name = "handle_run_command"
        /\ (~builtin /\ args.subcommand # "absent") => h.name = "handle_subcommand"
        /\ (~builtin /\ args.subcommand = "absent") => (h.name = "none" /\ ret = Return(1))
        /\ h.name = "handle_run_command" => OneTaskCall(h.calls, args.opts.task, args.opts)
        /\ (h.name = "handle_subcommand" /\ args.subcommand # "None")
            => OneTaskCall(h.calls, args.subcommand, args.opts)
        /\ (h.name = "handle_subcommand" /\ args.subcommand = "None")
            => (h.calls = <<>> /\ ret = Return(1))
        /\ h.name \notin {"handle_run_command", "handle_subcommand"} => h.calls = <<>>

C15_Witness ==
    /\ Routed
    /\ io[2].answer.command = "None"
    /\ io[2].answer.subcommand = "deploy"
    /\ io[3].name = "handle_subcommand"
    /\ Len(io[3].calls) = 1
    /\ io[3].calls[1].task_name = "deploy"
    /\ io[3].calls[1].task_args = <<"a">>
    /\ ret = Return(2)

\* =================================================== pf_subcommand_manager
\* The root task file and the included files are texts of characters; what
\* pf_parser makes of them is given with the call: the source it loads for
\* the root file, or the failure, and for each file its task names, or that
\* it cannot be read or parsed.

\* The paths of the include directives with their quotes left on.
IncludesAsWritten(dsl_src) ==
    LET ls == Lines(dsl_src)
        stripped == [k \in 1..Len(ls) |-> Strip(ls[k])]
        directives == SelectSeq(stripped,
                                LAMBDA l : StartsWith(l, <<"i", "n", "c", "l", "u", "d", "e", " ">>))
    IN [k \in 1..Len(directives) |-> Strip(SubSeq(directives[k], 9, Len(directives[k])))]

\* _extract_include_files(dsl_src) (lines 80-96): the paths of the include
\* directives, in order, without the quotes around them.
_extract_include_files(dsl_src) ==
    LET ls == Lines(dsl_src)
        stripped == [k \in 1..Len(ls) |-> Strip(ls[k])]
        directives == SelectSeq(stripped,
                                LAMBDA l : StartsWith(l, <<"i", "n", "c", "l", "u", "d", "e", " ">>))
        Quoted(p, q) == p # <<>> /\ p[1] = q /\ p[Len(p)] = q
        Unquote(p) == IF Quoted(p, "\"") \/ Quoted(p, "'") THEN SubSeq(p, 2, Len(p) - 1) ELSE p
    IN [k \in 1..Len(directives) |-> Unquote(Strip(SubSeq(directives[k], 9, Len(directives[k]))))]

\* _load_include_file(include_path, pfyfile) (lines 98-121): the path opened
\* and the text read, or the exception; an empty pfyfile stands for None.
_load_include_file(c, include_path) ==
    LET abspath(p) == IF isabs(p) THEN p ELSE join(c.cwd, p)
        slashes(p) == {i \in 1..Len(p) : p[i] = "/"}
        last(p) == CHOOSE i \in slashes(p) : \A j \in slashes(p) : j <= i
        dirname(p) == IF last(p) = 1 THEN <<"/">> ELSE SubSeq(p, 1, last(p) - 1)
        base_dir == IF c.pfyfile # <<>> THEN dirname(abspath(c.pfyfile)) ELSE c.cwd
        first == IF ~isabs(include_path) THEN join(base_dir, include_path) ELSE include_path
        again == ~exists(c, first) /\ c.pfyfile # <<>>
        \* base_dir is not bound when the include path is absolute and the
        \* root file is not there
        unbound == again /\ isabs(include_path) /\ ~exists(c, abspath(c.pfyfile))
        full_path == IF again THEN join(base_dir, include_path) ELSE first
    IN
    IF unbound THEN [kind |-> "raise", exc |-> "UnboundLocalError", path |-> first]
    ELSE IF full_path \in c.dirs
        THEN [kind |-> "raise", exc |-> "IsADirectoryError", path |-> full_path]
    ELSE IF full_path \notin DictKeys(c.files)
        THEN [kind |-> "raise", exc |-> "FileNotFoundError", path |-> full_path]
    ELSE IF DictGet(c.files, full_path).kind = "unreadable"
        THEN [kind |-> "raise", exc |-> "PermissionError", path |-> full_path]
    ELSE [kind |-> "text", exc |-> "None", path |-> full_path]

\* discover_subcommands(pfyfile) (lines 29-68): the mapping returned and the
\* warnings printed.
discover_subcommands(c) ==
    LET Warn(kind, path) == [ev |-> "print_stderr", what |-> kind, include_file |-> path]
        RECURSIVE Each(_, _, _)
        Each(include_files, subcommands, out) ==
            IF include_files = <<>> THEN [ret |-> Return(subcommands), io |-> out]
            ELSE
            LET include_file == include_files[1]
                loaded == _load_include_file(c, include_file)
                opened == Append(out, [ev |-> "open", path |-> loaded.path])
            IN
            IF loaded.kind = "raise" /\ loaded.exc = "UnboundLocalError"
                THEN Each(Tail(include_files), subcommands,
                          Append(out, Warn("Could not process include file", include_file)))
            ELSE IF loaded.kind = "raise" /\ loaded.exc = "FileNotFoundError"
                THEN Each(Tail(include_files), subcommands,
                          Append(opened, Warn("Include file not found", include_file)))
            ELSE IF loaded.kind = "raise"
                THEN Each(Tail(include_files), subcommands,
                          Append(opened, Warn("Could not process include file", include_file)))
            ELSE
            \* parse_pfyfile_text(include_src, {})
            LET include_tasks == DictGet(c.files, loaded.path) IN
            IF include_tasks.kind = "unparseable"
                THEN Each(Tail(include_files), subcommands,
                          Append(opened, Warn("Could not process include file", include_file)))
            ELSE Each(Tail(include_files),
                      DictSet(subcommands, include_file, include_tasks.names), opened)
    IN
    \* _load_pfy_source_with_includes(file_arg=pfyfile)
    IF c.root.kind = "FileNotFoundError" THEN [ret |-> Return(<<>>), io |-> <<>>]
    ELSE IF c.root.kind = "Exception"
        THEN [ret |-> Return(<<>>), io |-> <<Warn("Could not discover subcommands", <<>>)>>]
    ELSE Each(_extract_include_files(c.root.text), <<>>, <<>>)

\* The most lines of a root task file tried.
MaxRootLines == 2

\* Root task files of up to MaxRootLines lines: include directives, bare,
\* quoted and indented, and lines that are none; file systems where each
\* included file is missing, unreadable, unparseable or holds tasks, under
\* the root file's directory and under the working directory; a call with no
\* root file named, with one in another directory and with one found from the
\* working directory; and root files that cannot be loaded.
DiscoverCalls ==
    LET inc == <<"i", "n", "c", "l", "u", "d", "e", " ">>
        none == <<"-">>
        \* a line and the path it includes, none when it is no directive
        lines == {<<inc \o <<"a">>, <<"a">> >>,
                  <<inc \o <<"\"", "b", "\"">>, <<"b">> >>,
                  <<<<" ">> \o inc \o <<" ", "'", "a", "'", " ">>, <<"a">> >>,
                  <<inc \o <<"/", "r", "/", "a">>, <<"/", "r", "/", "a">> >>,
                  <<<<"i", "n", "c", "l", "u", "d", "e", "a">>, none>>,
                  <<<<"t">>, none>>}
        roots == {[kind |-> "loaded",
                   text |-> JoinWith(<<NL>>, [k \in 1..Len(ls) |-> ls[k][1]]),
                   includes |-> SelectSeq([k \in 1..Len(ls) |-> ls[k][2]], LAMBDA p : p # none)] :
                    ls \in Texts(lines, MaxRootLines)}
        kinds == {[kind |-> "tasks", names |-> <<"t", "u">>], [kind |-> "tasks", names |-> <<>>],
                  [kind |-> "unreadable", names |-> <<>>], [kind |-> "unparseable", names |-> <<>>]}
        File(path, k) == << <<path, k>> >>
        systems ==
            {ra \o wa \o rb :
                ra \in {<<>>} \cup {File(<<"/", "r", "/", "a">>, k) : k \in kinds},
                wa \in {<<>>, File(<<"/", "w", "/", "a">>, [kind |-> "tasks", names |-> <<"v">>])},
                rb \in {<<>>, File(<<"/", "w", "/", "b">>, [kind |-> "tasks", names |-> <<"w">>]),
                        File(<<"/", "r", "/", "b">>, [kind |-> "unparseable", names |-> <<>>])}}
        Call(pfyfile, root, files) ==
            [fn |-> "discover_subcommands", pfyfile |-> pfyfile, cwd |-> <<"/", "w">>,
             root |-> root,
             files |-> files \o File(<<"/", "r", "/", "P">>, [kind |-> "tasks", names |-> <<>>])
                             \o File(<<"/", "w", "/", "P">>, [kind |-> "tasks", names |-> <<>>]),
             dirs |-> {<<"/">>, <<"/", "r">>, <<"/", "w">>}]
    IN {Call(p, r, fs) : p \in {<<>>, <<"/", "r", "/", "P">>, <<"P">>}, r \in roots, fs \in systems}
       \cup {Call(p, [kind |-> k, text |-> <<>>, includes |-> <<>>], <<>>) :
                p \in {<<>>, <<"/", "r", "/", "P">>}, k \in {"FileNotFoundError", "Exception"}}

DiscoverInit == call \in DiscoverCalls /\ ret = NoRet /\ io = <<>> /\ ExecutorIdle

CallDiscover ==
    /\ call.fn = "discover_subcommands"
    /\ ret = NoRet
    /\ LET x == discover_subcommands(call) IN
        /\ ret' = x.ret
        /\ io' = x.io
    /\ UNCHANGED call
    /\ UNCHANGED xvars

DiscoverSpec == DiscoverInit /\ [][CallDiscover]_vars

\* ====================================================== claims: discovery

DiscoverDone == call.fn = "discover_subcommands" /\ ret # NoRet

\* C16: discover_subcommands returns, whatever fails. It opens the target of
\* every include directive of the root file, in order; it warns once for each
\* directive whose target is missing, unreadable or unparseable, naming it,
\* and records nothing for it; the mapping returned holds exactly the include
\* paths whose target loaded, each with the task names of that target; and a
\* root file that is missing yields the empty mapping without a warning.
C16_Discovery ==
    DiscoverDone =>
        LET incs == call.root.includes
            target(k) == _load_include_file(call, incs[k])
            loads(k) == /\ target(k).kind = "text"
                        /\ DictGet(call.files, target(k).path).kind = "tasks"
            failing == {k \in 1..Len(incs) : ~loads(k)}
            warnings == SelectSeq(io, LAMBDA e : e.ev = "print_stderr")
            opens == SelectSeq(io, LAMBDA e : e.ev = "open")
            \* the j-th failing directive
            nth(j) == CHOOSE k \in failing : Cardinality({i \in failing : i < k}) = j - 1
        IN
        /\ ret.kind = "return"
        /\ call.root.kind = "FileNotFoundError" => (ret.value = <<>> /\ io = <<>>)
        /\ call.root.kind = "Exception" => (ret.value = <<>> /\ Len(io) = 1)
        /\ call.root.kind = "loaded" =>
            /\ Len(opens) = Len(incs)
            /\ \A k \in 1..Len(incs) : opens[k].path = target(k).path
            /\ Len(warnings) = Cardinality(failing)
            /\ \A j \in 1..Len(warnings) : warnings[j].include_file = incs[nth(j)]
            /\ DictKeys(ret.value) = {incs[k] : k \in (1..Len(incs)) \ failing}
            /\ \A k \in (1..Len(incs)) \ failing :
                DictGet(ret.value, incs[k]) = DictGet(call.files, target(k).path).names

\* A missing include followed by one that loads.
C16_Witness ==
    /\ DiscoverDone
    /\ call.root.includes = << <<"a">>, <<"b">> >>
    /\ Len(io) = 3
    /\ io[2].ev = "print_stderr"
    /\ io[2].what = "Include file not found"
    /\ ret.value = << << <<"b">>, <<"w">> >> >>

\* ================================================ claims: remote execution

\* The remote runs of the call.
RemoteRuns == SelectSeq(io, LAMBDA e : e.ev = "connection.run")

\* C17: with a connection and a parsed command that is not empty, no local
\* process is spawned and one command string goes to the connection, with a
\* pseudo-terminal: an export statement for each variable of the merged
\* environment, then the command, the whole quoted as the argument of sudo's
\* bash -lc when sudo is requested; and the exit status the remote end
\* answers, zero or not, is the result.
C17_RemoteRun ==
    ( /\ ExecDone
      /\ call.connection # "None"
      /\ parse_shell_command(call.cmd_line).kind = "return"
      /\ parse_shell_command(call.cmd_line).value.command # <<>> ) =>
        LET p == parse_shell_command(call.cmd_line).value
            env == MergeEnv(call.task_env, p.env_vars)
            export(i) == <<"e", "x", "p", "o", "r", "t", " ">> \o env[i][1] \o <<"=">>
                         \o ShlexQuote(env[i][2]) \o <<";", " ">>
            exports == JoinWith(<<>>, [i \in 1..Len(env) |-> export(i)])
            elevation == IF call.sudo_user # <<>>
                         THEN <<"s", "u", "d", "o", " ", "-", "u", " ">> \o ShlexQuote(call.sudo_user)
                              \o <<" ", "-", "H", " ", "b", "a", "s", "h", " ", "-", "l", "c", " ">>
                         ELSE <<"s", "u", "d", "o", " ", "b", "a", "s", "h", " ", "-", "l", "c", " ">>
            composite == IF call.sudo THEN elevation \o ShlexQuote(exports \o p.command)
                         ELSE exports \o p.command
        IN
        /\ \A k \in 1..Len(io) : io[k].ev # "Popen"
        /\ Len(RemoteRuns) = 1
        /\ RemoteRuns[1].command = composite
        /\ RemoteRuns[1].pty
        /\ RemoteRuns[1].answer.kind = "exit" => ret = Return(RemoteRuns[1].answer.code)

C17_Witness ==
    /\ ExecDone
    /\ call.connection # "None"
    /\ call.sudo /\ call.sudo_user # <<>>
    /\ call.cmd_line = <<"a", "=", " ", "a">>
    /\ call.task_env # <<>>
    /\ Len(RemoteRuns) = 1
    /\ ret = Return(127)

\* C18: when the connection's run raises, the call raises a PFExecutionError
\* that carries the command as echoed and the merged environment: the
\* task's variables overridden by those of the command line; no exit code is
\* returned.
C18_RemoteFailure ==
    (ExecDone /\ \E k \in 1..Len(io) :
                    io[k].ev = "connection.run" /\ io[k].answer.kind = "Exception") =>
        LET p == parse_shell_command(call.cmd_line).value
            keys == DictKeys(call.task_env) \cup DictKeys(p.env_vars)
        IN
        /\ ret.kind = "raise"
        /\ ret.exc = "PFExecutionError"
        /\ DictKeys(ret.environment) = keys
        /\ Len(ret.environment) = Cardinality(keys)
        /\ \A k \in keys :
            DictGet(ret.environment, k) = IF k \in DictKeys(p.env_vars)
                                          THEN DictGet(p.env_vars, k)
                                          ELSE DictGet(call.task_env, k)
        /\ ret.command = DisplayCmd(ret.environment, p.command, call.sudo)
        /\ Len(RemoteRuns) = 1

C18_Witness ==
    /\ ExecDone
    /\ call.connection # "None"
    /\ call.cmd_line = <<"a", "=", " ", "a">>
    /\ call.task_env # <<>>
    /\ Len(RemoteRuns) = 1
    /\ RemoteRuns[1].answer.kind = "Exception"
    /\ ret.kind = "raise"
    /\ ret.environment = << <<<<"b">>, <<"u">> >>, <<<<"a">>, <<>> >> >>

\* ================================================ claims: polyglot source

\* The command is inline source: its first token, or the text itself from its
\* first character that is no white space when it cannot be tokenized, does
\* not start with "@" or "file:".
InlineSource(cmd) ==
    LET split == ShlexSplit(cmd)
        first == IF ~split.ok THEN LStrip(cmd)
                 ELSE IF split.tokens = <<>> THEN <<>>
                 ELSE split.tokens[1]
    IN ~StartsWith(first, <<"@">>) /\ ~StartsWith(first, T_file_colon)

\* C19 as stated: inline source, whether or not it can be tokenized as a
\* shell line, is handed to the builder as it is, with no arguments, and
\* nothing is raised.
C19_Original ==
    ( /\ RenderDone
      /\ io # <<>>
      /\ io[1].ev = "_extract_polyglot_source"
      /\ InlineSource(call.cmd) ) =>
        /\ ret.kind = "return"
        /\ io[Len(io)].ev = "builder"
        /\ io[Len(io)].snippet = call.cmd
        /\ io[Len(io)].args = <<>>

\* ================================================= claims: parse failure

MaxInvocations == 4

\* The home directory before the first command: the marker ~/.pf_debug is
\* absent, or an earlier debug-on left it.
DebugInit ==
    /\ call \in [fn : {"pf"}, marker : BOOLEAN]
    /\ ret = NoRet
    /\ io = <<>>
    /\ dbg = [DebugIdle EXCEPT !.marker = call.marker]
    /\ sh = ShellIdle
    /\ pc = "idle"
    /\ fstate = <<>>
    /\ fresult = <<>>
    /\ starts = <<>>
    /\ collected = <<>>
    /\ rc_total = 0

\* A pf process is started with debug-on or debug-off and reaches the first
\* statement of its handler; `was` remembers the marker at that moment.
Invoke(cmd) ==
    /\ call.fn = "pf"
    /\ Len(dbg.inv) < MaxInvocations
    /\ dbg' = [dbg EXCEPT !.inv = Append(@,
                  [cmd |-> cmd, at |-> IF cmd = "debug-on" THEN "open" ELSE "exists",
                   was |-> dbg.marker, rc |-> -1])]
    /\ UNCHANGED <<call, ret, io, pc, fstate, fresult, starts, collected, rc_total, sh>>

\* The shell starts the next command when the one before has returned.
InvokeAlone(cmd) ==
    /\ \A i \in 1..Len(dbg.inv) : dbg.inv[i].at = "done"
    /\ Invoke(cmd)

\* Invocation i ends without touching the marker.
MarkerKept(i) ==
    /\ call.fn = "pf"
    /\ i \in 1..Len(dbg.inv)
    /\ dbg.inv[i].cmd = "debug-off"
    /\ dbg.inv[i].at # "done"
    /\ dbg' = [dbg EXCEPT !.inv[i].at = "done", !.inv[i].rc = 0]
    /\ io' = Append(io, [ev |-> "print", by |-> i, stream |-> "stdout", text |-> "Debug mode disabled."])
    /\ UNCHANGED <<call, ret, pc, fstate, fresult, starts, collected, rc_total, sh>>

\* handle_debug_on_command, one file operation at a time: open(debug_file, 'w')
\* creates or truncates the marker (line 46); f.write("1") and the close of
\* the with block write to the file that was opened, whether or not the name
\* still leads to it (line 47); then the message and return 0 (lines 48-49).
handle_debug_on_command(i) ==
    /\ call.fn = "pf"
    /\ i \in 1..Len(dbg.inv)
    /\ dbg.inv[i].cmd = "debug-on"
    /\ \/ /\ dbg.inv[i].at = "open"
          /\ dbg' = [dbg EXCEPT !.marker = TRUE, !.inv[i].at = "write",
                                !.ops = Append(@, [by |-> i, op |-> "open"])]
          /\ io' = io
       \/ /\ dbg.inv[i].at = "write"
          /\ dbg' = [dbg EXCEPT !.inv[i].at = "done", !.inv[i].rc = 0,
                                !.ops = Append(@, [by |-> i, op |-> "write"])]
          /\ io' = Append(io, [ev |-> "print", by |-> i, stream |-> "stdout",
                               text |-> "Debug mode enabled. Set PF_DEBUG=1 in your environment or run with --debug."])
    /\ UNCHANGED <<call, ret, pc, fstate, fresult, starts, collected, rc_total, sh>>

\* handle_debug_off_command, one file operation at a time: os.path.exists
\* (line 58); when it was true, os.remove (line 59), which raises
\* FileNotFoundError when the marker is no longer there, and the except
\* clause prints the failure and returns 1 (lines 62-64); otherwise the
\* message and return 0 (lines 60-61).
handle_debug_off_command(i) ==
    /\ call.fn = "pf"
    /\ i \in 1..Len(dbg.inv)
    /\ dbg.inv[i].cmd = "debug-off"
    /\ LET disabled == [ev |-> "print", by |-> i, stream |-> "stdout", text |-> "Debug mode disabled."]
           failed == [ev |-> "print", by |-> i, stream |-> "stderr", text |-> "Failed to disable debug mode"]
       IN  \/ /\ dbg.inv[i].at = "exists"
              /\ IF dbg.marker
                 THEN dbg' = [dbg EXCEPT !.inv[i].at = "remove"] /\ io' = io
                 ELSE /\ dbg' = [dbg EXCEPT !.inv[i].at = "done", !.inv[i].rc = 0]
                      /\ io' = Append(io, disabled)
           \/ /\ dbg.inv[i].at = "remove"
              /\ IF dbg.marker
                 THEN /\ dbg' = [dbg EXCEPT !.marker = FALSE, !.inv[i].at = "done", !.inv[i].rc = 0,
                                            !.ops = Append(@, [by |-> i, op |-> "remove"])]
                      /\ io' = Append(io, disabled)
                 ELSE /\ dbg' = [dbg EXCEPT !.inv[i].at = "done", !.inv[i].rc = 1]
                      /\ io' = Append(io, failed)
    /\ UNCHANGED <<call, ret, pc, fstate, fresult, starts, collected, rc_total, sh>>

\* One more file operation of some running command.
DebugStep ==
    \E i \in 1..MaxInvocations : handle_debug_on_command(i) \/ handle_debug_off_command(i)

\* The commands are run one after another.
DebugSeqSpec ==
    DebugInit /\ [][(\E cmd \in {"debug-on", "debug-off"} : InvokeAlone(cmd)) \/ DebugStep]_vars

\* The commands are run by processes that do not wait for each other.
DebugSpec ==
    DebugInit /\ [][(\E cmd \in {"debug-on", "debug-off"} : Invoke(cmd)) \/ DebugStep]_vars

\* ================================================= claims: debug toggle

\* Every command invoked so far has returned, and there was one.
TogglesDone ==
    /\ call.fn = "pf"
    /\ dbg.inv # <<>>
    /\ \A i \in 1..Len(dbg.inv) : dbg.inv[i].at = "done"

C28_Original ==
    /\ \A i \in 1..Len(dbg.inv) :
           (call.fn = "pf" /\ dbg.inv[i].cmd = "debug-off" /\ dbg.inv[i].at = "done") => dbg.inv[i].rc = 0
    /\ \A k \in 1..Len(io) : (call.fn = "pf") => io[k].stream = "stdout"
    /\ (TogglesDone /\ dbg.ops # <<>>) =>
           (dbg.marker <=> dbg.ops[Len(dbg.ops)].op = "write")

\* ============================================ the builder, invoked again

\* The payload of every language registered with _script_profile or
\* _compile_profile is rendered, bash runs it, and the builder is invoked once
\* more with the same snippet and arguments before, while or after it runs.
RebuildInit ==
    /\ ExecutorIdle
    /\ ret = NoRet
    /\ io = <<>>
    /\ call \in {[fn |-> "bash", profile |-> "again", lang_key |-> k, snippet |-> s, args |-> a,
                  payload |-> builder(DictGet(POLYGLOT_LANGS, k), s, a)] :
                     k \in {x \in DictKeys(POLYGLOT_LANGS) :
                                DictGet(POLYGLOT_LANGS, x).kind \in {"script", "compile"}},
                     s \in {<<>>, <<"x", NL>>},
                     a \in {<<>>, << <<"a">>, <<"b", " ">> >>}}

\* builder(snippet, lang_args) once more: the closure returns what
\* _build_script_command or _build_compile_command returns and does nothing
\* else (lines 177-178, 192-202).
CallBuilder ==
    /\ call.fn = "bash"
    /\ call.profile = "again"
    /\ \A k \in 1..Len(io) : io[k].ev # "builder"
    /\ io' = Append(io, [ev |-> "builder",
                         payload |-> builder(DictGet(POLYGLOT_LANGS, call.lang_key), call.snippet, call.args)])
    /\ UNCHANGED <<call, ret>>
    /\ UNCHANGED xvars

RebuildSpec == RebuildInit /\ [][ShellStart \/ ShellStep \/ CallBuilder]_vars

\* ================================================= claims: repeatability

C23_Original ==
    (BuildDone /\ ~HasMetaChar(call.command) /\ ~ShlexSplit(call.command).ok) =>
        ret = Return(SudoElements \o <<T_bash, T_dash_c, call.command>>)

\* C23 amended: such a command comes back as ['bash', '-c', command] and
\* nothing is raised when elevation is not requested; when it is requested
\* the call raises a PFExecutionError that carries the command and the
\* suggestion to check the quoting, and no vector is returned.
C23_Amended ==
    (BuildDone /\ ~HasMetaChar(call.command) /\ ~ShlexSplit(call.command).ok) =>
        IF ~call.sudo
        THEN ret = Return(<<T_bash, T_dash_c, call.command>>)
        ELSE /\ ret.kind = "raise"
             /\ ret.exc = "PFExecutionError"
             /\ ret.command = call.command
             /\ ret.suggestion = "Check for unclosed quotes or invalid escape sequences"

C23_Witness ==
    /\ BuildDone
    /\ call.command = <<"a", " ", "'">>
    /\ call.sudo /\ call.sudo_user = <<>>
    /\ ret.kind = "raise"
    /\ ret.command = <<"a", " ", "'">>

\* ================================================= claims: elevation flags

\* C24 as stated: every elevated invocation of execute_shell_command, the
\* argument vector of a local call and the words of the command string of a
\* remote call alike, starts with sudo, has -u <user> next exactly when a
\* user is given, and then -H, with or without a user.
C24_Original ==
    (ExecDone /\ call.sudo) =>
        \A k \in 1..Len(io) :
            io[k].ev \in {"Popen", "connection.run"} =>
                LET words == IF io[k].ev = "Popen" THEN io[k].args
                             ELSE ShlexSplit(io[k].command).tokens
                    h == IF call.sudo_user # <<>> THEN 4 ELSE 2
                IN  /\ Len(words) > h
                    /\ words[1] = T_sudo
                    /\ (call.sudo_user # <<>>) <=> (words[2] = T_dash_u /\ words[3] = call.sudo_user)
                    /\ words[h] = T_dash_H

\* ================================================= claims: JVM entry point

\* C25 as stated: in the payload of java-openjdk that bash was given, the run
\* step changes to the classes directory and invokes java with the word Main,
\* followed by a space and the shell-quoted arguments when there are any.
C25_Original ==
    ( /\ call.fn = "bash"
      /\ call.profile = "compile"
      /\ call.lang_key = <<"j", "a", "v", "a", "-", "o", "p", "e", "n", "j", "d", "k">>
      /\ sh.lines # <<>> ) =>
        \E k \in 1..Len(sh.lines) :
            sh.lines[k] = <<"  ", "(cd ", "\"$classes\"", " && java Main">>
                          \o ArgSuffix(_poly_args(call.args)) \o <<")">>

\* ================================================= claims: source file

\* C26 as stated: for a command whose first word is @path or file:path the
\* resolution raises a PFSyntaxError exactly when the path is relative and
\* there is no base directory, or when nothing exists at the resolved path;
\* the file at an absolute path is read as the snippet with or without a base
\* directory, and a relative path is looked up under the base directory.
C26_Original ==
    ( /\ RenderDone /\ io # <<>> /\ io[1].ev = "_extract_polyglot_source"
      /\ ShlexSplit(call.cmd).ok
      /\ ShlexSplit(call.cmd).tokens # <<>>
      /\ \/ StartsWith(ShlexSplit(call.cmd).tokens[1], <<"@">>)
         \/ StartsWith(ShlexSplit(call.cmd).tokens[1], T_file_colon) ) =>
        LET word == ShlexSplit(call.cmd).tokens[1]
            path == IF StartsWith(word, <<"@">>) THEN SubSeq(word, 2, Len(word))
                    ELSE SubSeq(word, 6, Len(word))
            base == call.working_dir
            unresolved == ~isabs(path) /\ base = <<>>
            target == IF isabs(path) THEN path
                      ELSE IF base[Len(base)] = "/" THEN base \o path
                      ELSE base \o <<"/">> \o path
            missing == ~unresolved /\ target \notin DictKeys(call.files) /\ target \notin call.dirs
        IN
        /\ (ret.kind = "raise" /\ ret.exc = "PFSyntaxError") <=> (unresolved \/ missing)
        /\ (~unresolved /\ target \in DictKeys(call.files)) =>
               /\ ret.kind = "return"
               /\ io[Len(io)].ev = "builder"
               /\ io[Len(io)].snippet = DictGet(call.files, target)

\* ================================================= claims: include lookup

\* C27 as stated: the target of a relative include path is the file of that
\* name in the directory of the root task file when there is one, and
\* otherwise the file of that name in the current working directory; so an
\* include that exists only in the working directory is opened there, and
\* its tasks are in the mapping returned.
C27_Original ==
    (DiscoverDone /\ call.root.kind = "loaded") =>
        LET incs == call.root.includes
            opens == SelectSeq(io, LAMBDA e : e.ev = "open")
            root == IF isabs(call.pfyfile) THEN call.pfyfile ELSE join(call.cwd, call.pfyfile)
            slashes == {i \in 1..Len(root) : root[i] = "/"}
            last == CHOOSE i \in slashes : \A j \in slashes : j <= i
            root_dir == IF call.pfyfile = <<>> THEN call.cwd
                        ELSE IF last = 1 THEN <<"/">> ELSE SubSeq(root, 1, last - 1)
            target(p) == IF exists(call, join(root_dir, p)) THEN join(root_dir, p)
                         ELSE join(call.cwd, p)
        IN
        /\ Len(opens) = Len(incs)
        /\ \A k \in 1..Len(incs) :
               ~isabs(incs[k]) =>
                   /\ opens[k].path = target(incs[k])
                   /\ ( /\ target(incs[k]) \in DictKeys(call.files)
                        /\ DictGet(call.files, target(incs[k])).kind = "tasks" ) =>
                          /\ incs[k] \in DictKeys(ret.value)
                          /\ DictGet(ret.value, incs[k]) = DictGet(call.files, target(incs[k])).names

\* ================================================= claims: command word

\* The option of the argument parser that takes the host list as its value
\* (-h/--hosts); the parser itself lies outside the modules listed above.
HostsOption == <<"-", "h">>

\* C29 as stated: the argument looked up in the alias map is the command
\* word: the first argument that is neither an option nor the value of
\* -f/--file, -h/--hosts or -e/--env. The value of -h or -e is never
\* rewritten, and the command word behind it is resolved as usual. (Stated for
\* argument lists in which every such option is followed by its value.)
C29_Original ==
    ( /\ RunDone
      /\ \A i \in 1..Len(call.args) :
            call.args[i] \in {<<"-", "f">>, HostsOption} =>
                (i < Len(call.args) /\ ~StartsWith(call.args[i + 1], <<"-">>)) ) =>
        LET a == call.args
            value[i \in 0..Len(a)] ==
                IF i <= 1 THEN FALSE
                ELSE a[i - 1] \in {<<"-", "f">>, HostsOption} /\ ~value[i - 1]
            words == {i \in 1..Len(a) : ~StartsWith(a[i], <<"-">>) /\ ~value[i]}
            w == IF words = {} THEN 0 ELSE CHOOSE i \in words : \A j \in words : i <= j
            named == \E j \in 1..(w - 1) :
                        \/ a[j] = <<"-", "f">>
                        \/ StartsWith(a[j], <<"-", "-", "f", "i", "l", "e", "=">>)
            aliases == IF named THEN call.alias_file ELSE call.alias_default
            names == {<<"l", "i", "s", "t">>, <<"h", "e", "l", "p">>, <<"r", "u", "n">>,
                      <<"p", "r", "u", "n", "e">>, <<"d", "e", "b", "u", "g", "-", "o", "n">>,
                      <<"d", "e", "b", "u", "g", "-", "o", "f", "f">>}
            hit == /\ w > 0
                   /\ a[w] \notin names
                   /\ aliases.ok
                   /\ \E k \in 1..Len(aliases.map) : aliases.map[k][1] = a[w]
            parsed == io[2].args
        IN
        /\ io[2].ev = "parse_args"
        /\ hit =>
            /\ Len(parsed) = Len(a) + 1
            /\ \A j \in 1..(w - 1) : parsed[j] = a[j]
            /\ parsed[w] = <<"r", "u", "n">>
            /\ \E k \in 1..Len(aliases.map) :
                aliases.map[k][1] = a[w] /\ parsed[w + 1] = aliases.map[k][2]
            /\ \A j \in (w + 1)..Len(a) : parsed[j + 1] = a[j]
        /\ ~hit => parsed = a

\* ================================================= claims: precedence

\* C30: in a call that runs a command, a variable has the value of the
\* command line's leading assignments when it is set there, else that of the
\* task environment, else the inherited one; the echoed line shows the task
\* variables overridden and followed by those of the command line, the local
\* process is given the inherited environment overridden by that same
\* mapping, which is also exported in the shell text of an elevated local
\* shell invocation, and the remote command exports that same mapping.
C30_Precedence ==
    ( /\ ExecDone
      /\ parse_shell_command(call.cmd_line).kind = "return"
      /\ parse_shell_command(call.cmd_line).value.command # <<>> ) =>
        LET p == parse_shell_command(call.cmd_line).value
            tk == call.task_env
            ev == p.env_vars
            os == call.os_environ
            val(k) == IF k \in DictKeys(ev) THEN DictGet(ev, k)
                      ELSE IF k \in DictKeys(tk) THEN DictGet(tk, k)
                      ELSE DictGet(os, k)
            merged == [i \in 1..Len(tk) |-> <<tk[i][1], val(tk[i][1])>>]
                      \o SelectSeq(ev, LAMBDA kv : kv[1] \notin DictKeys(tk))
            text == WithExports(merged, p.command)
        IN
        /\ io[1] = Printed(<<"$", " ">> \o DisplayCmd(merged, p.command, call.sudo))
        /\ \A j \in 1..Len(io) :
            /\ io[j].ev = "Popen" =>
                /\ DictKeys(io[j].env) = DictKeys(os) \cup DictKeys(tk) \cup DictKeys(ev)
                /\ \A k \in DictKeys(io[j].env) : DictGet(io[j].env, k) = val(k)
                /\ Len(io[j].env) = Cardinality(DictKeys(io[j].env))
                /\ (call.sudo /\ HasMetaChar(p.command)) =>
                        io[j].args[Len(io[j].args)] = text
            /\ io[j].ev = "connection.run" =>
                IF call.sudo THEN EndsWith(io[j].command, ShlexQuote(text))
                ELSE io[j].command = text

\* The variable a is inherited, set by the task and set to the empty text on
\* the command line: the process is given the command line's value.
C30_Witness ==
    /\ ExecDone
    /\ call.connection = "None"
    /\ call.cmd_line = <<"a", "=", " ", "a">>
    /\ <<"a">> \in DictKeys(call.task_env)
    /\ <<"a">> \in DictKeys(call.os_environ)
    /\ Len(io) = 2
    /\ io[2].ev = "Popen"
    /\ DictGet(io[2].env, <<"a">>) = <<>>
    /\ DictGet(io[2].env, <<"b">>) = <<"u">>

=============================================================================
